---- MODULE Spec2Model ----
(***************************************************************************)
(* Typebot-Downloader: the flow-graph analysis of a Typebot document.      *)
(*                                                                         *)
(* The flow tracer (get_ordered_variables / trace_flow) exists in two      *)
(* copies, src/1-BotLogicExtractor.py and src/2-ExtractBotData.py; the     *)
(* variable impl says which copy runs.  The recursion of trace_flow is     *)
(* modelled with an explicit call stack, one frame per call that has not   *)
(* returned.  The constraint extractor (generate_constraints) of the two   *)
(* files is modelled as the loop over the items of the Condition blocks,   *)
(* the question associator (extract_questions) as the scan of the blocks   *)
(* of each group, generate_metadata as the loop over the ordered names,    *)
(* and fetch_all_results (src/2-GetResults.py, src/2-ExtractBotData.py) as *)
(* the loop over the pages of each filter set, against a results API that  *)
(* is part of the model.                                                   *)
(***************************************************************************)
EXTENDS Integers, Sequences, FiniteSets, TLC

(***************************************************************************)
(* Bounds of the model.                                                    *)
(***************************************************************************)
MaxGroups == 2        \* groups of a document
MaxBlocks == 2        \* blocks of a group
MaxVars == 3          \* declared variables of a document
ConsBlocks == 4       \* blocks of the group of a Condition block
MaxItems == 3         \* items of a Condition block
QuesBlocks == 3       \* blocks of the group extract_questions scans
MetaBlocks == 3       \* blocks of the document generate_metadata reads
MaxIds == 2           \* result ids a server of any answer tells of
MaxRequests == 4      \* requests a server of any answer lets through
MaxRecords == 5       \* results a filter set of a list server holds

\* Python's None (and every other falsy id: ids are non-empty, here positive)
None == 0

(***************************************************************************)
(* Generic helpers on sequences.                                           *)
(***************************************************************************)
Range(s) == {s[k] : k \in DOMAIN s}

NoDup(s) == \A p, q \in DOMAIN s : p # q => s[p] # s[q]

\* position of the first occurrence of x in s, 0 when absent
IndexOf(s, x) ==
    IF \E k \in DOMAIN s : s[k] = x
    THEN CHOOSE k \in DOMAIN s : s[k] = x /\ \A j \in 1..(k - 1) : s[j] # x
    ELSE 0

RECURSIVE Concat(_)
Concat(ss) == IF ss = <<>> THEN <<>> ELSE Head(ss) \o Concat(Tail(ss))

(***************************************************************************)
(* The document (bot_data['typebot']).  Ids are positive integers, None is *)
(* an absent key.                                                          *)
(***************************************************************************)
\* content says what the key 'content' of the item holds: a dict ("dict",
\* with its comparisons), nothing because the key is absent ("absent"), or
\* null ("null")
Item(id, edgeId, comparisons) ==
    [id |-> id, outgoingEdgeId |-> edgeId, comparisons |-> comparisons, content |-> "dict"]

ItemWithout(id, edgeId, content) ==
    [id |-> id, outgoingEdgeId |-> edgeId, comparisons |-> <<>>, content |-> content]

\* text is the richText of the content of a text block
Block(id, type, variableId, items, jumpGroup, jumpBlock) ==
    [id |-> id, type |-> type, variableId |-> variableId, items |-> items,
     groupId |-> jumpGroup, blockId |-> jumpBlock, text |-> <<>>]

Group(id, blocks) == [id |-> id, blocks |-> blocks]

From(eventId, blockId, itemId, groupId) ==
    [eventId |-> eventId, blockId |-> blockId, itemId |-> itemId, groupId |-> groupId]

To(groupId, blockId) == [groupId |-> groupId, blockId |-> blockId]

Edge(id, from, to) == [id |-> id, from |-> from, to |-> to]

Event(id, type) == [id |-> id, type |-> type]

Variable(id, name) == [id |-> id, name |-> name]

\* the name a failed lookup in the variable map gives (None; falsy like "")
NoName == ""

(***************************************************************************)
(* Lookup indices built at the start of each function.                     *)
(***************************************************************************)
\* keys of a dict built from entries with an 'id', in insertion order
RECURSIVE DictKeys(_)
DictKeys(entries) ==
    IF entries = <<>> THEN <<>>
    ELSE LET front == DictKeys(SubSeq(entries, 1, Len(entries) - 1))
             k == entries[Len(entries)].id
         IN  IF k \in Range(front) THEN front ELSE Append(front, k)

\* value of a dict built from entries with an 'id': the last entry wins
LastWith(entries, id) ==
    entries[CHOOSE k \in DOMAIN entries :
                /\ entries[k].id = id
                /\ \A j \in (k + 1)..Len(entries) : entries[j].id # id]

HasKey(entries, id) == \E k \in DOMAIN entries : entries[k].id = id

\* variables = {v['id']: v['name'] for v in bot.get('variables', [])}
variables_has(bot, id) == HasKey(bot.variables, id)

variables_get(bot, id) ==
    IF variables_has(bot, id) THEN LastWith(bot.variables, id).name ELSE NoName

\* variables.values(), in the dict's iteration order
variables_values(bot) ==
    LET keys == DictKeys(bot.variables)
    IN  [k \in DOMAIN keys |-> variables_get(bot, keys[k])]

\* groups = {g['id']: g for g in bot.get('groups', [])}
groups_has(bot, id) == HasKey(bot.groups, id)

groups_get(bot, id) == LastWith(bot.groups, id)

(***************************************************************************)
(* get_targets: the 'to' of every edge whose 'from' matches the one id     *)
(* given, in edge order.                                                   *)
(***************************************************************************)
EdgeMatches(edge, block_id, group_id, item_id, event_id) ==
    LET f == edge.from
    IN  \/ event_id # None /\ f.eventId = event_id
        \/ item_id # None /\ f.itemId = item_id
        \/ block_id # None /\ f.blockId = block_id /\ f.itemId = None
        \/ group_id # None /\ f.groupId = group_id

get_targets(bot, block_id, group_id, item_id, event_id) ==
    LET hits == SelectSeq(bot.edges,
                    LAMBDA e : EdgeMatches(e, block_id, group_id, item_id, event_id))
    IN  [k \in DOMAIN hits |-> hits[k].to]

(***************************************************************************)
(* Entry points of the traversal.                                          *)
(***************************************************************************)
EventTargets(bot) ==
    Concat([k \in DOMAIN bot.events |->
               IF bot.events[k].type = "start"
               THEN get_targets(bot, None, None, None, bot.events[k].id)
               ELSE <<>>])

DefaultStart(bot, targets) ==
    IF targets = <<>> /\ bot.startGroupId # None
    THEN <<To(bot.startGroupId, None)>>
    ELSE targets

\* only in 1-BotLogicExtractor.py
FirstGroupStart(bot, targets) ==
    IF targets = <<>> /\ bot.groups # <<>>
    THEN <<To(DictKeys(bot.groups)[1], None)>>
    ELSE targets

StartTargets(bot, copy) ==
    IF copy = 1
    THEN FirstGroupStart(bot, DefaultStart(bot, EventTargets(bot)))
    ELSE DefaultStart(bot, EventTargets(bot))

(***************************************************************************)
(* One iteration of the block loop of trace_flow.                          *)
(***************************************************************************)
\* trace_flow reading every group from its first block
StartIdxFirst(blocks, start_block_id) == 1

\* start_idx: index of the first block with id start_block_id, else the first
StartIdx(blocks, start_block_id) ==
    IF start_block_id # None /\ \E k \in DOMAIN blocks : blocks[k].id = start_block_id
    THEN CHOOSE k \in DOMAIN blocks :
            /\ blocks[k].id = start_block_id
            /\ \A j \in 1..(k - 1) : blocks[j].id # start_block_id
    ELSE 1

\* Capture without the test "var_name not in ordered_variables"
CaptureNoDedup(bot, ordered, block) ==
    IF block.variableId # None /\ variables_has(bot, block.variableId)
    THEN Append(ordered, variables_get(bot, block.variableId))
    ELSE ordered

\* Capture inserting at the front of the list
CapturePrepend(bot, ordered, block) ==
    LET var_name == variables_get(bot, block.variableId)
    IN  IF block.variableId # None /\ variables_has(bot, block.variableId)
           /\ var_name \notin Range(ordered)
        THEN <<var_name>> \o ordered
        ELSE ordered

\* ordered_variables after the block's variable was looked at
Capture(bot, ordered, block) ==
    LET var_id == block.variableId
        var_name == variables_get(bot, var_id)
    IN  IF var_id # None /\ variables_has(bot, var_id) /\ var_name \notin Range(ordered)
        THEN Append(ordered, var_name)
        ELSE ordered

\* a target to follow and the way it was found
Call(via, to) == [via |-> via, to |-> to]

Tagged(via, targets) == [k \in DOMAIN targets |-> Call(via, targets[k])]

ItemTargets(bot, block) ==
    Concat([k \in DOMAIN block.items |->
               get_targets(bot, None, None, block.items[k].id, None)])

OwnTargets(bot, block) == get_targets(bot, block.id, None, None, None)

JumpTargets(block) ==
    IF block.type = "Jump" THEN <<To(block.groupId, block.blockId)>> ELSE <<>>

\* the loop body following the block's own edges before those of its items
BlockCallsOwnFirst(bot, block) ==
    SelectSeq(Tagged("own", OwnTargets(bot, block))
                \o Tagged("item", ItemTargets(bot, block))
                \o Tagged("jump", JumpTargets(block)),
              LAMBDA c : c.to.groupId # None)

\* the trace_flow calls the loop body makes for one block, in call order
\* (targets without a groupId are not followed)
BlockCalls(bot, block) ==
    SelectSeq(Tagged("item", ItemTargets(bot, block))
                \o Tagged("own", OwnTargets(bot, block))
                \o Tagged("jump", JumpTargets(block)),
              LAMBDA c : c.to.groupId # None)

\* trace_flow without its guard
NeverVisited(group_id, visited) == FALSE

\* if group_id in visited_groups: return
AlreadyVisited(group_id, visited) == group_id \in visited

\* trace_flow forgetting to mark the group
MarkNothing(group_id, visited) == visited

\* visited_groups.add(group_id)
MarkVisited(group_id, visited) == visited \cup {group_id}

\* the fallback pass walking the variables from the last to the first
RECURSIVE AppendMissingReversed(_, _)
AppendMissingReversed(ordered, names) ==
    IF names = <<>> THEN ordered
    ELSE AppendMissingReversed(
            IF names[Len(names)] \in Range(ordered) THEN ordered
            ELSE Append(ordered, names[Len(names)]),
            SubSeq(names, 1, Len(names) - 1))

\* the fallback pass: every name not collected yet, in variables.values() order
RECURSIVE AppendMissing(_, _)
AppendMissing(ordered, names) ==
    IF names = <<>> THEN ordered
    ELSE AppendMissing(IF Head(names) \in Range(ordered) THEN ordered
                       ELSE Append(ordered, Head(names)),
                       Tail(names))

(***************************************************************************)
(* State.                                                                  *)
(***************************************************************************)
VARIABLES
    doc,                \* the document under analysis (never written)
    impl,               \* 1: 1-BotLogicExtractor.py, 2: 2-ExtractBotData.py
    pc,                 \* "init", "trace", "done" or "error" (RecursionError)
    run,                \* which call of get_ordered_variables this is (1 or 2)
    start_targets,      \* entry targets not yet handed to trace_flow
    ordered_variables,  \* the list under construction, then the result
    visited_groups,     \* group ids trace_flow was called for
    stack,              \* trace_flow calls that have not returned, innermost last
    first_result,       \* what the first call returned (<<>> until then)
    \* what the current call of get_ordered_variables has done so far
    entry_points,       \* start_targets as first computed
    entered_log,        \* the calls that reached the loop, with their start_idx
    guard_hits,         \* the calls stopped by the visited guard (active: the
                        \* group's own loop was still running)
    scan_log,           \* [group_id, i] of each block the loop has read
    call_log,           \* [block, via, to] of each recursive call, in call order
    capture_log,        \* [name, path] of each name appended by the loop
    traversed,          \* ordered_variables when the traversal ended
    steps,              \* steps taken since the first call began
    \* generate_constraints
    cons_pc,            \* "off", "init", "blocks", "items", "done" or "error"
    constraints,        \* the list under construction, then the result
    block_cursor,       \* place of the outer loop in all_blocks
    item_cursor,        \* place of the inner loop in the items of the block
    emitted,            \* [block, item] of the item each constraint came from
    windows,            \* [block, item, to, skipped] of each item that got as far
                        \* as its skip window
    \* extract_questions
    ques_pc,            \* "off", "init", "groups", "blocks", "done" or "error"
    questions_map,      \* the entries [name, text] of the dict, in insertion order
    group_cursor,       \* place of the outer loop in the groups
    block_index,        \* place of the inner loop in the blocks of the group
    last_text_content,  \* the pending text
    pending_source,     \* the text block the pending text came from
    recorded,           \* [input, source, name, text] of each assignment
    \* generate_metadata
    meta_pc,            \* "off", "init", "vars", "blocks" or "done"
    ordered_vars,       \* the argument: the names in the order of the columns
    target_vars,        \* the names the loop goes through
    meta_cursor,        \* place of the loop in target_vars or in all_blocks
    columns_metadata,   \* the entries [name, sdtype] of the dict, in insertion order
    \* fetch_all_results
    fetch_pc,           \* "off", "init", "sets", "pages" or "done"
    server,             \* the results API: how it answers, and what it holds
    filter_set,         \* place of the loop in filter_sets
    offset,             \* the cursor of the next request
    has_more,           \* the flag of the while loop
    all_extracted_map,  \* the rows of the dict, in insertion order
    page_log            \* [set, cursor, status, results] of each request so far

tracer == <<pc, run, start_targets, ordered_variables, visited_groups, stack, first_result>>

history == <<entry_points, entered_log, guard_hits, scan_log, call_log, capture_log,
             traversed>>

extractor == <<cons_pc, constraints, block_cursor, item_cursor, emitted, windows>>

associator == <<ques_pc, questions_map, group_cursor, block_index, last_text_content,
                pending_source, recorded>>

describer == <<meta_pc, ordered_vars, target_vars, meta_cursor, columns_metadata>>

fetcher == <<fetch_pc, server, filter_set, offset, has_more, all_extracted_map, page_log>>

vars == <<doc, impl, tracer, history, steps, extractor, associator, describer, fetcher>>

\* a call trace_flow(group_id, start_block_id) that has just been made
Frame(target) ==
    [group_id |-> target.groupId, start_block_id |-> target.blockId,
     entered |-> FALSE, i |-> 0, calls |-> <<>>]

Top == stack[Len(stack)]

Pop == SubSeq(stack, 1, Len(stack) - 1)

SetTop(frame) == [stack EXCEPT ![Len(stack)] = frame]

\* the block a call that reached the loop is at: blocks[i - 1] once read
CurrentBlock(frame) == groups_get(doc, frame.group_id).blocks[frame.i - 1]

\* the blocks whose loop bodies are waiting for a call to return, outermost first
ActiveBlocks == [k \in 1..(Len(stack) - 1) |-> CurrentBlock(stack[k]).id]

ActiveGroups == {stack[k].group_id : k \in 1..(Len(stack) - 1)}

\* Python's recursion limit, scaled down; the traversal never comes near it
RecursionLimit == 6

(***************************************************************************)
(* get_ordered_variables, up to the first trace_flow call.                 *)
(***************************************************************************)
\* get_ordered_variables with a visited set that outlives the call
BeginKeepingVisited ==
    /\ pc = "init"
    /\ steps' = steps + 1
    /\ UNCHANGED <<extractor, associator, describer, fetcher>>
    /\ start_targets' = StartTargets(doc, impl)
    /\ ordered_variables' = <<>>
    /\ stack' = <<>>
    /\ pc' = "trace"
    /\ entry_points' = StartTargets(doc, impl)
    /\ entered_log' = <<>>
    /\ guard_hits' = <<>>
    /\ scan_log' = <<>>
    /\ call_log' = <<>>
    /\ capture_log' = <<>>
    /\ traversed' = <<>>
    /\ UNCHANGED <<doc, impl, run, first_result, visited_groups>>

Begin ==
    /\ pc = "init"
    /\ steps' = steps + 1
    /\ UNCHANGED <<extractor, associator, describer, fetcher>>
    /\ start_targets' = StartTargets(doc, impl)
    /\ ordered_variables' = <<>>
    /\ visited_groups' = {}
    /\ stack' = <<>>
    /\ pc' = "trace"
    /\ entry_points' = StartTargets(doc, impl)
    /\ entered_log' = <<>>
    /\ guard_hits' = <<>>
    /\ scan_log' = <<>>
    /\ call_log' = <<>>
    /\ capture_log' = <<>>
    /\ traversed' = <<>>
    /\ UNCHANGED <<doc, impl, run, first_result>>

\* for target in start_targets: if tg: trace_flow(tg, tb)
NextStart ==
    /\ pc = "trace"
    /\ steps' = steps + 1
    /\ UNCHANGED <<extractor, associator, describer, fetcher>>
    /\ stack = <<>>
    /\ start_targets # <<>>
    /\ start_targets' = Tail(start_targets)
    /\ stack' = IF Head(start_targets).groupId # None
                THEN <<Frame(Head(start_targets))>>
                ELSE <<>>
    /\ UNCHANGED <<doc, impl, pc, run, ordered_variables, visited_groups, first_result,
                   history>>

(***************************************************************************)
(* trace_flow.                                                             *)
(***************************************************************************)
\* the visited guard, the group lookup and the choice of the starting index
Enter ==
    /\ pc = "trace"
    /\ steps' = steps + 1
    /\ UNCHANGED <<extractor, associator, describer, fetcher>>
    /\ stack # <<>>
    /\ ~Top.entered
    /\ IF AlreadyVisited(Top.group_id, visited_groups)
       THEN /\ stack' = Pop
            /\ guard_hits' = Append(guard_hits,
                                [group_id |-> Top.group_id,
                                 start_block_id |-> Top.start_block_id,
                                 active |-> Top.group_id \in ActiveGroups])
            /\ UNCHANGED <<visited_groups, entered_log>>
       ELSE /\ visited_groups' = MarkVisited(Top.group_id, visited_groups)
            /\ UNCHANGED guard_hits
            /\ IF ~groups_has(doc, Top.group_id)
               THEN /\ stack' = Pop
                    /\ UNCHANGED entered_log
               ELSE LET start_idx == StartIdx(groups_get(doc, Top.group_id).blocks,
                                              Top.start_block_id)
                    IN  /\ stack' = SetTop([Top EXCEPT !.entered = TRUE, !.i = start_idx])
                        /\ entered_log' = Append(entered_log,
                                             [group_id |-> Top.group_id,
                                              start_block_id |-> Top.start_block_id,
                                              start_idx |-> start_idx])
    /\ UNCHANGED <<doc, impl, pc, run, start_targets, ordered_variables, first_result,
                   entry_points, scan_log, call_log, capture_log, traversed>>

\* the loop body for blocks[i], up to its first recursive call
ScanBlock ==
    /\ pc = "trace"
    /\ steps' = steps + 1
    /\ UNCHANGED <<extractor, associator, describer, fetcher>>
    /\ stack # <<>>
    /\ Top.entered
    /\ Top.calls = <<>>
    /\ Top.i <= Len(groups_get(doc, Top.group_id).blocks)
    /\ LET block == groups_get(doc, Top.group_id).blocks[Top.i]
           captured == Capture(doc, ordered_variables, block)
       IN  /\ ordered_variables' = captured
           /\ stack' = SetTop([Top EXCEPT !.calls = BlockCalls(doc, block),
                                          !.i = Top.i + 1])
           /\ scan_log' = Append(scan_log, [group_id |-> Top.group_id, i |-> Top.i])
           /\ capture_log' =
                IF captured = ordered_variables THEN capture_log
                ELSE Append(capture_log,
                            [name |-> captured[Len(captured)],
                             path |-> Append(ActiveBlocks, block.id)])
    /\ UNCHANGED <<doc, impl, pc, run, start_targets, visited_groups, first_result,
                   entry_points, entered_log, guard_hits, call_log, traversed>>

\* the next recursive call of the loop body
CallTarget ==
    /\ pc = "trace"
    /\ steps' = steps + 1
    /\ UNCHANGED <<extractor, associator, describer, fetcher>>
    /\ stack # <<>>
    /\ Top.entered
    /\ Top.calls # <<>>
    /\ IF Len(stack) >= RecursionLimit
       THEN /\ pc' = "error"
            /\ UNCHANGED <<stack, call_log>>
       ELSE /\ stack' = Append(SetTop([Top EXCEPT !.calls = Tail(Top.calls)]),
                               Frame(Head(Top.calls).to))
            /\ call_log' = Append(call_log,
                              [block |-> CurrentBlock(Top).id,
                               via |-> Head(Top.calls).via,
                               to |-> Head(Top.calls).to])
            /\ UNCHANGED pc
    /\ UNCHANGED <<doc, impl, run, start_targets, ordered_variables, visited_groups,
                   first_result, entry_points, entered_log, guard_hits, scan_log,
                   capture_log, traversed>>

\* the loop is over: trace_flow returns
Return ==
    /\ pc = "trace"
    /\ steps' = steps + 1
    /\ UNCHANGED <<extractor, associator, describer, fetcher>>
    /\ stack # <<>>
    /\ Top.entered
    /\ Top.calls = <<>>
    /\ Top.i > Len(groups_get(doc, Top.group_id).blocks)
    /\ stack' = Pop
    /\ UNCHANGED <<doc, impl, pc, run, start_targets, ordered_variables, visited_groups,
                   first_result, history>>

(***************************************************************************)
(* get_ordered_variables, after the traversal.                             *)
(***************************************************************************)
Fallback ==
    /\ pc = "trace"
    /\ steps' = steps + 1
    /\ UNCHANGED <<extractor, associator, describer, fetcher>>
    /\ stack = <<>>
    /\ start_targets = <<>>
    /\ ordered_variables' = AppendMissing(ordered_variables, variables_values(doc))
    /\ traversed' = ordered_variables
    /\ pc' = "done"
    /\ UNCHANGED <<doc, impl, run, start_targets, visited_groups, stack, first_result,
                   entry_points, entered_log, guard_hits, scan_log, call_log, capture_log>>

\* the caller keeps the result and calls get_ordered_variables again
Rerun ==
    /\ pc = "done"
    /\ steps' = steps + 1
    /\ UNCHANGED <<extractor, associator, describer, fetcher>>
    /\ run = 1
    /\ first_result' = ordered_variables
    /\ run' = 2
    /\ pc' = "init"
    /\ UNCHANGED <<doc, impl, start_targets, ordered_variables, visited_groups, stack,
                   history>>

(***************************************************************************)
(* generate_constraints.  Both copies build the same indices and read the  *)
(* items of the Condition blocks in the same way; they differ in how the   *)
(* operator of the comparison is rendered.                                 *)
(***************************************************************************)
Comparison(variableId, comparisonOperator, value) ==
    [variableId |-> variableId, comparisonOperator |-> comparisonOperator, value |-> value]

Constraint(condition_column, condition_value, affected_columns) ==
    [condition_column |-> condition_column, condition_value |-> condition_value,
     affected_columns |-> affected_columns]

\* for group in groups: for block in blocks: the blocks in declaration order
AllBlocks(bot) == Concat([g \in DOMAIN bot.groups |-> bot.groups[g].blocks])

\* all_blocks[block['id']] = block
all_blocks_keys(bot) == DictKeys(AllBlocks(bot))

all_blocks_has(bot, id) == HasKey(AllBlocks(bot), id)

all_blocks_get(bot, id) == LastWith(AllBlocks(bot), id)

\* block_to_group[block['id']] = group['id']: the last group that declares it
block_to_group(bot, block_id) ==
    LET owners == {g \in DOMAIN bot.groups : HasKey(bot.groups[g].blocks, block_id)}
    IN  IF owners = {} THEN None
        ELSE bot.groups[CHOOSE g \in owners : \A h \in owners : h <= g].id

\* group_block_orders.get(from_group_id, [])
group_block_orders(bot, group_id) ==
    IF groups_has(bot, group_id)
    THEN LET blocks == groups_get(bot, group_id).blocks
         IN  [k \in DOMAIN blocks |-> blocks[k].id]
    ELSE <<>>

\* the first edge with the id, or else the first edge of the document
TargetEdgeOrFirst(bot, outgoing_edge_id) ==
    LET hits == {k \in DOMAIN bot.edges : bot.edges[k].id = outgoing_edge_id}
    IN  IF hits # {} THEN <<bot.edges[CHOOSE k \in hits : \A j \in hits : k <= j]>>
        ELSE IF bot.edges # <<>> THEN <<bot.edges[1]>>
        ELSE <<>>

\* the first edge with the id, as a list of one edge; <<>> when there is none
TargetEdge(bot, outgoing_edge_id) ==
    LET hits == {k \in DOMAIN bot.edges : bot.edges[k].id = outgoing_edge_id}
    IN  IF hits = {} THEN <<>>
        ELSE <<bot.edges[CHOOSE k \in hits : \A j \in hits : k <= j]>>

\* the characters of the block types that occur in the documents
Chars(type) ==
    CASE type = "" -> <<>>
      [] type = "text" -> <<"t", "e", "x", "t">>
      [] type = "text input" -> <<"t", "e", "x", "t", " ", "i", "n", "p", "u", "t">>
      [] type = "choice input" ->
            <<"c", "h", "o", "i", "c", "e", " ", "i", "n", "p", "u", "t">>
      [] type = "Number Input" ->
            <<"N", "u", "m", "b", "e", "r", " ", "I", "n", "p", "u", "t">>
      [] type = "Set variable" ->
            <<"S", "e", "t", " ", "v", "a", "r", "i", "a", "b", "l", "e">>
      [] type = "Condition" -> <<"C", "o", "n", "d", "i", "t", "i", "o", "n">>
      [] type = "Jump" -> <<"J", "u", "m", "p">>
      [] type = "picture choice input" ->
            <<"p", "i", "c", "t", "u", "r", "e", " ", "c", "h", "o", "i", "c", "e", " ",
              "i", "n", "p", "u", "t">>

\* str.lower() on those characters
Lower(chars) ==
    LET low(c) == CASE c = "C" -> "c" [] c = "I" -> "i" [] c = "J" -> "j"
                    [] c = "N" -> "n" [] c = "S" -> "s" [] OTHER -> c
    IN  [k \in DOMAIN chars |-> low(chars[k])]

\* sub in chars
Contains(chars, sub) ==
    \E k \in 0..(Len(chars) - Len(sub)) : SubSeq(chars, k + 1, k + Len(sub)) = sub

\* 'input' in skipped_block.get('type', '')
IsInputCaseSensitive(type) == Contains(Chars(type), <<"i", "n", "p", "u", "t">>)

\* 'input' in skipped_block.get('type', '').lower()
IsInput(type) == Contains(Lower(Chars(type)), <<"i", "n", "p", "u", "t">>)

\* s[from:to] for indices that are not negative
Slice(s, from, to) == SubSeq(s, from + 1, IF to < Len(s) THEN to ELSE Len(s))

\* block_order[start_index:]
InterGroupWindowInclusive(block_order, block_id) ==
    IF block_id \in Range(block_order)
    THEN Slice(block_order, IndexOf(block_order, block_id) - 1, Len(block_order))
    ELSE <<>>

\* block_order[start_index + 1:]
InterGroupWindow(block_order, block_id) ==
    IF block_id \in Range(block_order)
    THEN Slice(block_order, IndexOf(block_order, block_id), Len(block_order))
    ELSE <<>>

\* block_order[start_index + 1:end_index + 1]
SameGroupWindowInclusive(block_order, block_id, to_block_id) ==
    IF block_id \in Range(block_order) /\ to_block_id \in Range(block_order)
    THEN Slice(block_order, IndexOf(block_order, block_id),
               IndexOf(block_order, to_block_id))
    ELSE <<>>

\* block_order[start_index + 1:end_index]
SameGroupWindow(block_order, block_id, to_block_id) ==
    IF block_id \in Range(block_order) /\ to_block_id \in Range(block_order)
    THEN Slice(block_order, IndexOf(block_order, block_id),
               IndexOf(block_order, to_block_id) - 1)
    ELSE <<>>

\* the ids of the blocks the edge of an item of block_id passes over
SkippedBlockIds(bot, block_id, to_info) ==
    LET from_group_id == block_to_group(bot, block_id)
        block_order == group_block_orders(bot, from_group_id)
    IN  IF from_group_id = None THEN <<>>
        ELSE IF to_info.groupId # None /\ to_info.groupId # from_group_id
        THEN InterGroupWindow(block_order, block_id)
        ELSE IF to_info.blockId # None /\ to_info.blockId \in Range(block_order)
        THEN SameGroupWindow(block_order, block_id, to_info.blockId)
        ELSE <<>>

\* the variable ids of the input blocks among the skipped blocks
SkippedVarIds(bot, skipped_block_ids) ==
    LET var_id(id) ==
            IF all_blocks_has(bot, id)
               /\ IsInput(all_blocks_get(bot, id).type)
               /\ all_blocks_get(bot, id).variableId # None
            THEN <<all_blocks_get(bot, id).variableId>>
            ELSE <<>>
    IN  Concat([k \in DOMAIN skipped_block_ids |-> var_id(skipped_block_ids[k])])

\* the names in the reverse of the window order
AffectedColumnsReversed(bot, skipped_var_ids) ==
    LET name(id) == IF variables_has(bot, id) THEN <<variables_get(bot, id)>> ELSE <<>>
        n == Len(skipped_var_ids)
    IN  Concat([k \in DOMAIN skipped_var_ids |-> name(skipped_var_ids[n + 1 - k])])

\* [variables[var_id] for var_id in skipped_var_ids if var_id in variables]
AffectedColumns(bot, skipped_var_ids) ==
    LET name(id) == IF variables_has(bot, id) THEN <<variables_get(bot, id)>> ELSE <<>>
    IN  Concat([k \in DOMAIN skipped_var_ids |-> name(skipped_var_ids[k])])

\* a constraint is appended for every item that got as far as its window
EmitsAlways(affected_columns) == TRUE

\* if affected_columns:
Emits(affected_columns) == affected_columns # <<>>

\* condition_value, as the words that the f-string joins with a blank
ConditionDesc(copy, operator, condition_value) ==
    IF copy = 1 /\ operator = "Equal to" THEN <<condition_value>>
    ELSE IF copy = 1 /\ operator = "Contains" THEN <<"contém", condition_value>>
    ELSE IF copy = 1 /\ operator = "Does not contain" THEN <<"não contém", condition_value>>
    ELSE IF copy = 1 /\ operator = "Not equal" THEN <<"diferente de", condition_value>>
    ELSE <<operator, condition_value>>

\* the body of the loop, reading the last comparison of the item
ItemConstraintsLastComparison(bot, copy, block_id, item) ==
    IF item.comparisons = <<>> THEN <<>>
    ELSE LET comparison == item.comparisons[Len(item.comparisons)]
             condition_variable_name == variables_get(bot, comparison.variableId)
             target_edge == TargetEdge(bot, item.outgoingEdgeId)
         IN  IF condition_variable_name = NoName THEN <<>>
             ELSE IF target_edge = <<>> THEN <<>>
             ELSE LET affected_columns ==
                          AffectedColumns(bot,
                              SkippedVarIds(bot,
                                  SkippedBlockIds(bot, block_id, target_edge[1].to)))
                  IN  IF Emits(affected_columns)
                      THEN <<Constraint(condition_variable_name,
                                        ConditionDesc(copy, comparison.comparisonOperator,
                                                      comparison.value),
                                        affected_columns)>>
                      ELSE <<>>

\* the body of "for item in items": the constraints it appends (none or one)
ItemConstraints(bot, copy, block_id, item) ==
    IF item.comparisons = <<>> THEN <<>>
    ELSE LET comparison == item.comparisons[1]
             condition_variable_name == variables_get(bot, comparison.variableId)
             target_edge == TargetEdge(bot, item.outgoingEdgeId)
         IN  IF condition_variable_name = NoName THEN <<>>
             ELSE IF target_edge = <<>> THEN <<>>
             ELSE LET affected_columns ==
                          AffectedColumns(bot,
                              SkippedVarIds(bot,
                                  SkippedBlockIds(bot, block_id, target_edge[1].to)))
                  IN  IF Emits(affected_columns)
                      THEN <<Constraint(condition_variable_name,
                                        ConditionDesc(copy, comparison.comparisonOperator,
                                                      comparison.value),
                                        affected_columns)>>
                      ELSE <<>>

\* the skip window of the item, when the body gets as far as computing it
ItemWindow(bot, block_id, item) ==
    IF item.comparisons = <<>> THEN <<>>
    ELSE IF variables_get(bot, item.comparisons[1].variableId) = NoName THEN <<>>
    ELSE IF TargetEdge(bot, item.outgoingEdgeId) = <<>> THEN <<>>
    ELSE LET to_info == TargetEdge(bot, item.outgoingEdgeId)[1].to
         IN  <<[to |-> to_info, skipped |-> SkippedBlockIds(bot, block_id, to_info)]>>

\* content = item.get('content', {}) is None when the key holds null, and
\* content.get raises AttributeError
ItemRaises(item) == item.content = "null"

\* what generate_constraints returns for a document on which it returns: the
\* constraints of the items of the Condition blocks, in the order of the loops
generate_constraints(bot, copy) ==
    LET keys == all_blocks_keys(bot)
        ofBlock(block) ==
            IF block.type = "Condition"
            THEN Concat([i \in DOMAIN block.items |->
                            ItemConstraints(bot, copy, block.id, block.items[i])])
            ELSE <<>>
    IN  Concat([k \in DOMAIN keys |-> ofBlock(all_blocks_get(bot, keys[k]))])

\* the block the outer loop is at
CursorBlock == all_blocks_get(doc, all_blocks_keys(doc)[block_cursor])

\* the indices are built, constraints = []
ConsBegin ==
    /\ cons_pc = "init"
    /\ constraints' = <<>>
    /\ emitted' = <<>>
    /\ windows' = <<>>
    /\ block_cursor' = 1
    /\ item_cursor' = 0
    /\ cons_pc' = "blocks"
    /\ UNCHANGED <<doc, impl, tracer, history, steps, associator, describer, fetcher>>

\* for block_id, block in all_blocks.items(): if block.get('type') == 'Condition'
NextBlock ==
    /\ cons_pc = "blocks"
    /\ block_cursor <= Len(all_blocks_keys(doc))
    /\ IF CursorBlock.type = "Condition"
       THEN /\ cons_pc' = "items"
            /\ item_cursor' = 1
            /\ UNCHANGED block_cursor
       ELSE /\ block_cursor' = block_cursor + 1
            /\ UNCHANGED <<cons_pc, item_cursor>>
    /\ UNCHANGED <<doc, impl, tracer, history, steps, associator, describer, fetcher,
                   constraints, emitted, windows>>

\* for item in items: one pass through the body
NextItem ==
    /\ cons_pc = "items"
    /\ item_cursor <= Len(CursorBlock.items)
    /\ IF ItemRaises(CursorBlock.items[item_cursor])
       THEN /\ cons_pc' = "error"
            /\ UNCHANGED <<constraints, emitted, windows, item_cursor>>
       ELSE LET item == CursorBlock.items[item_cursor]
                found == ItemConstraints(doc, impl, CursorBlock.id, item)
                window == ItemWindow(doc, CursorBlock.id, item)
                at == [block |-> CursorBlock.id, item |-> item_cursor]
            IN  /\ constraints' = constraints \o found
                /\ emitted' = IF found = <<>> THEN emitted ELSE Append(emitted, at)
                /\ windows' = IF window = <<>> THEN windows
                              ELSE Append(windows, [at |-> at, to |-> window[1].to,
                                                    skipped |-> window[1].skipped])
                /\ item_cursor' = item_cursor + 1
                /\ UNCHANGED cons_pc
    /\ UNCHANGED <<doc, impl, tracer, history, steps, associator, describer, fetcher, block_cursor>>

\* the items of the block are exhausted
EndItems ==
    /\ cons_pc = "items"
    /\ item_cursor > Len(CursorBlock.items)
    /\ block_cursor' = block_cursor + 1
    /\ item_cursor' = 0
    /\ cons_pc' = "blocks"
    /\ UNCHANGED <<doc, impl, tracer, history, steps, associator, describer, fetcher,
                   constraints, emitted, windows>>

\* return constraints
ConsReturn ==
    /\ cons_pc = "blocks"
    /\ block_cursor > Len(all_blocks_keys(doc))
    /\ cons_pc' = "done"
    /\ UNCHANGED <<doc, impl, tracer, history, steps, associator, describer, fetcher,
                   constraints, emitted, windows,
                   block_cursor, item_cursor>>

(***************************************************************************)
(* extract_questions.  A text is a list of characters; the richText of a   *)
(* text block is a list of elements, each a list of children, each child   *)
(* the characters of its 'text'.  The two copies differ in what they take  *)
(* for an input block.                                                     *)
(***************************************************************************)
\* "".join([c.get('text', '') for c in children])
LineText(children) == Concat(children)

\* str.strip(), the blank being the only whitespace of the texts
RECURSIVE Strip(_)
Strip(chars) ==
    IF chars = <<>> THEN <<>>
    ELSE IF Head(chars) = " " THEN Strip(Tail(chars))
    ELSE IF chars[Len(chars)] = " " THEN Strip(SubSeq(chars, 1, Len(chars) - 1))
    ELSE chars

\* the stripped lines of the elements that are not blank
ExtractedLines(rich_text) ==
    LET line(element) == IF Strip(LineText(element)) # <<>>
                         THEN <<Strip(LineText(element))>>
                         ELSE <<>>
    IN  Concat([k \in DOMAIN rich_text |-> line(rich_text[k])])

\* "\n".join(extracted_lines)
RECURSIVE JoinLines(_)
JoinLines(lines) ==
    IF lines = <<>> THEN <<>>
    ELSE IF Len(lines) = 1 THEN lines[1]
    ELSE lines[1] \o <<"\n">> \o JoinLines(Tail(lines))

\* the types that 1-BotLogicExtractor.py takes for input blocks
QuestionInputTypes ==
    {"text input", "number input", "email input", "url input", "date input",
     "phone number input", "choice input", "rating input", "file input", "payment input"}

\* elif block_type in [...] / elif 'input' in block_type
IsQuestionInput(copy, type) ==
    IF copy = 1 THEN type \in QuestionInputTypes
    ELSE Contains(Chars(type), <<"i", "n", "p", "u", "t">>)

\* block.get('type') is None for a block without type, and 'input' in None
\* raises TypeError in 2-ExtractBotData.py
QuesRaises(copy, block) == copy = 2 /\ block.type = ""

\* questions_map[var_name] = text, questions_map being the list of the
\* entries of the dict in insertion order
DictSet(map, name, text) ==
    IF \E k \in DOMAIN map : map[k].name = name
    THEN [k \in DOMAIN map |-> IF map[k].name = name THEN [name |-> name, text |-> text]
                                ELSE map[k]]
    ELSE Append(map, [name |-> name, text |-> text])

\* the pending text stays after it was assigned
KeepAfterUse(text) == text

\* last_text_content = "" after the assignment
AfterUse(text) == <<>>

\* the earlier text stays in front of the text of the block
TextAppended(lines, pending) ==
    IF lines # <<>> THEN pending \o JoinLines(lines) ELSE pending

\* if extracted_lines: last_text_content = "\n".join(extracted_lines)
TextAfter(lines, pending) ==
    IF lines # <<>> THEN JoinLines(lines) ELSE pending

\* the pending text goes on into the next group
CarriedOver(text) == text

\* last_text_content = "" at the head of the loop over the groups
AtGroupStart(text) == <<>>

\* the scan of the blocks of one group from the pending text and the entries
\* so far: [questions, raised]
RECURSIVE ScanOf(_, _, _, _, _)
ScanOf(bot, copy, blocks, pending, questions) ==
    IF blocks = <<>> THEN [questions |-> questions, raised |-> FALSE]
    ELSE LET block == Head(blocks)
             var_name == variables_get(bot, block.variableId)
         IN  IF block.type = "text"
             THEN ScanOf(bot, copy, Tail(blocks),
                         TextAfter(ExtractedLines(block.text), pending), questions)
             ELSE IF QuesRaises(copy, block)
             THEN [questions |-> questions, raised |-> TRUE]
             ELSE IF /\ IsQuestionInput(copy, block.type)
                     /\ block.variableId # None
                     /\ var_name # NoName
                     /\ pending # <<>>
             THEN ScanOf(bot, copy, Tail(blocks), AfterUse(pending),
                         DictSet(questions, var_name, pending))
             ELSE ScanOf(bot, copy, Tail(blocks), pending, questions)

\* what extract_questions does with a document: the scan of its groups, one
\* after the other
RECURSIVE ScanGroups(_, _, _, _)
ScanGroups(bot, copy, groups, questions) ==
    IF groups = <<>> THEN [questions |-> questions, raised |-> FALSE]
    ELSE LET scan == ScanOf(bot, copy, Head(groups).blocks, <<>>, questions)
         IN  IF scan.raised THEN scan
             ELSE ScanGroups(bot, copy, Tail(groups), scan.questions)

extract_questions(bot, copy) == ScanGroups(bot, copy, bot.groups, <<>>)

\* the block the scan is at
ScannedBlock == doc.groups[group_cursor].blocks[block_index]

\* questions_map = {}, variables_map is built
QuesBegin ==
    /\ ques_pc = "init"
    /\ questions_map' = <<>>
    /\ recorded' = <<>>
    /\ group_cursor' = 1
    /\ block_index' = 0
    /\ last_text_content' = <<>>
    /\ pending_source' = None
    /\ ques_pc' = "groups"
    /\ UNCHANGED <<doc, impl, tracer, history, steps, extractor, describer, fetcher>>

\* for group in bot.get('groups', []): last_text_content = ""
NextGroup ==
    /\ ques_pc = "groups"
    /\ group_cursor <= Len(doc.groups)
    /\ last_text_content' = AtGroupStart(last_text_content)
    /\ pending_source' = IF AtGroupStart(last_text_content) = <<>> THEN None
                         ELSE pending_source
    /\ block_index' = 1
    /\ ques_pc' = "blocks"
    /\ UNCHANGED <<doc, impl, tracer, history, steps, extractor, describer, fetcher,
                   questions_map, recorded,
                   group_cursor>>

\* for block in blocks: one pass through the body
QuesBlock ==
    /\ ques_pc = "blocks"
    /\ block_index <= Len(doc.groups[group_cursor].blocks)
    /\ LET block == ScannedBlock
           lines == ExtractedLines(block.text)
           var_name == variables_get(doc, block.variableId)
       IN  IF block.type = "text"
           THEN /\ last_text_content' = TextAfter(lines, last_text_content)
                /\ pending_source' = IF lines # <<>> THEN block.id ELSE pending_source
                /\ block_index' = block_index + 1
                /\ UNCHANGED <<ques_pc, questions_map, recorded>>
           ELSE IF QuesRaises(impl, block)
           THEN /\ ques_pc' = "error"
                /\ UNCHANGED <<questions_map, recorded, block_index, last_text_content,
                               pending_source>>
           ELSE IF /\ IsQuestionInput(impl, block.type)
                   /\ block.variableId # None
                   /\ var_name # NoName
                   /\ last_text_content # <<>>
           THEN /\ questions_map' = DictSet(questions_map, var_name, last_text_content)
                /\ recorded' = Append(recorded, [input |-> block.id,
                                                 source |-> pending_source,
                                                 name |-> var_name,
                                                 text |-> last_text_content])
                /\ last_text_content' = AfterUse(last_text_content)
                /\ pending_source' = IF AfterUse(last_text_content) = <<>> THEN None
                                     ELSE pending_source
                /\ block_index' = block_index + 1
                /\ UNCHANGED ques_pc
           ELSE /\ block_index' = block_index + 1
                /\ UNCHANGED <<ques_pc, questions_map, recorded, last_text_content,
                               pending_source>>
    /\ UNCHANGED <<doc, impl, tracer, history, steps, extractor, describer, fetcher, group_cursor>>

\* the blocks of the group are exhausted
EndGroup ==
    /\ ques_pc = "blocks"
    /\ block_index > Len(doc.groups[group_cursor].blocks)
    /\ group_cursor' = group_cursor + 1
    /\ block_index' = 0
    /\ ques_pc' = "groups"
    /\ UNCHANGED <<doc, impl, tracer, history, steps, extractor, describer, fetcher,
                   questions_map, recorded,
                   last_text_content, pending_source>>

\* return questions_map
QuesReturn ==
    /\ ques_pc = "groups"
    /\ group_cursor > Len(doc.groups)
    /\ ques_pc' = "done"
    /\ UNCHANGED <<doc, impl, tracer, history, steps, extractor, describer, fetcher,
                   questions_map, recorded,
                   group_cursor, block_index, last_text_content, pending_source>>

(***************************************************************************)
(* generate_metadata.  The two copies differ in what they do when the list *)
(* of ordered variables is empty.                                          *)
(***************************************************************************)
\* the keys of sdtype_map
SdtypeTypes ==
    {"text input", "choice input", "rating input", "number input", "email input",
     "phone number input", "date input", "url input"}

\* sdtype_map[b_type]
sdtype_map(type) ==
    CASE type = "text input" -> "text"
      [] type = "choice input" -> "categorical"
      [] type = "rating input" -> "numerical"
      [] type = "number input" -> "numerical"
      [] type = "email input" -> "email"
      [] type = "phone number input" -> "phone_number"
      [] type = "date input" -> "datetime"
      [] type = "url input" -> "url"

\* v_id and variables_map.get(v_id) == var_name
WritesName(bot, block, var_name) ==
    /\ block.variableId # None
    /\ variables_has(bot, block.variableId)
    /\ variables_get(bot, block.variableId) = var_name

\* the first block that writes the name decides, whatever its type
SdtypeOfFirstWriter(bot, var_name) ==
    LET all_blocks == AllBlocks(bot)
        hits == {k \in DOMAIN all_blocks : WritesName(bot, all_blocks[k], var_name)}
        first == CHOOSE k \in hits : \A j \in hits : k <= j
    IN  IF hits # {} /\ all_blocks[first].type \in SdtypeTypes
        THEN sdtype_map(all_blocks[first].type)
        ELSE "text"

\* for block in all_blocks: the first block that writes the name and has a
\* type of sdtype_map decides (found, break); "text" if there is none
SdtypeOf(bot, var_name) ==
    LET all_blocks == AllBlocks(bot)
        hits == {k \in DOMAIN all_blocks :
                    /\ WritesName(bot, all_blocks[k], var_name)
                    /\ all_blocks[k].type \in SdtypeTypes}
    IN  IF hits = {} THEN "text"
        ELSE sdtype_map(all_blocks[CHOOSE k \in hits : \A j \in hits : k <= j].type)

\* columns_metadata[var_name] = {"sdtype": ...}
ColumnSet(columns, name, sdtype) ==
    IF \E k \in DOMAIN columns : columns[k].name = name
    THEN [k \in DOMAIN columns |->
            IF columns[k].name = name THEN [name |-> name, sdtype |-> sdtype]
            ELSE columns[k]]
    ELSE Append(columns, [name |-> name, sdtype |-> sdtype])

\* the maps are built; if ordered_vars: ... else: ... in 1-BotLogicExtractor.py,
\* target_vars = ordered_vars if ordered_vars else variables_map.values() in
\* 2-ExtractBotData.py
MetaBegin ==
    /\ meta_pc = "init"
    /\ columns_metadata' = <<>>
    /\ meta_cursor' = 1
    /\ IF ordered_vars # <<>>
       THEN target_vars' = ordered_vars /\ meta_pc' = "vars"
       ELSE IF impl = 2
       THEN target_vars' = variables_values(doc) /\ meta_pc' = "vars"
       ELSE target_vars' = <<>> /\ meta_pc' = "blocks"
    /\ UNCHANGED <<doc, impl, tracer, history, steps, extractor, associator, fetcher,
                   ordered_vars>>

\* for var_name in ordered_vars / target_vars: one pass through the body
MetaVar ==
    /\ meta_pc = "vars"
    /\ meta_cursor <= Len(target_vars)
    /\ columns_metadata' = ColumnSet(columns_metadata, target_vars[meta_cursor],
                                     SdtypeOf(doc, target_vars[meta_cursor]))
    /\ meta_cursor' = meta_cursor + 1
    /\ UNCHANGED <<doc, impl, tracer, history, steps, extractor, associator, fetcher,
                   meta_pc, ordered_vars, target_vars>>

\* for block in all_blocks: one pass through the body of the loop that
\* 1-BotLogicExtractor.py runs without an order
MetaBlock ==
    /\ meta_pc = "blocks"
    /\ meta_cursor <= Len(AllBlocks(doc))
    /\ LET block == AllBlocks(doc)[meta_cursor]
           variable_name == variables_get(doc, block.variableId)
       IN  IF /\ block.variableId # None
              /\ variable_name # NoName
              /\ block.type \in SdtypeTypes
           THEN columns_metadata' = ColumnSet(columns_metadata, variable_name,
                                              sdtype_map(block.type))
           ELSE UNCHANGED columns_metadata
    /\ meta_cursor' = meta_cursor + 1
    /\ UNCHANGED <<doc, impl, tracer, history, steps, extractor, associator, fetcher,
                   meta_pc, ordered_vars, target_vars>>

\* return {"METADATA_SPEC_VERSION": ..., "columns": columns_metadata}
MetaReturn ==
    /\ \/ meta_pc = "vars" /\ meta_cursor > Len(target_vars)
       \/ meta_pc = "blocks" /\ meta_cursor > Len(AllBlocks(doc))
    /\ meta_pc' = "done"
    /\ UNCHANGED <<doc, impl, tracer, history, steps, extractor, associator, fetcher,
                   ordered_vars, target_vars, meta_cursor, columns_metadata>>

(***************************************************************************)
(* fetch_all_results (2-GetResults.py and 2-ExtractBotData.py): for each   *)
(* of the two filter sets, pages are requested until one ends the loop.    *)
(* A result is [id, content], the content standing for the fields a row is *)
(* built from; the two copies differ only in the columns of a row.         *)
(***************************************************************************)
\* limit = 100, scaled down
limit == 2

\* filter_sets: all results, archived results
filter_sets == <<"allTime", "isArchived">>

Result(id, content) == [id |-> id, content |-> content]

\* row = {"ResultId": res_id, ...}: the row built from a result
Row(res) == [ResultId |-> res.id, content |-> res.content]

\* response.raise_for_status() raised, or data = response.json()
Failure == [status |-> "error", results |-> <<>>]

Page(results) == [status |-> "ok", results |-> results]

\* the whole page is processed, the extra record included
BatchWhole(results) == results

\* batch_to_process = results[:limit] if num_returned > limit else results
BatchToProcess(results) ==
    IF Len(results) > limit THEN SubSeq(results, 1, limit) ELSE results

\* a result that comes again replaces the row of its id
RECURSIVE ExtractOverwriting(_, _)
ExtractOverwriting(map, batch) ==
    IF batch = <<>> THEN map
    ELSE ExtractOverwriting(
            IF \E k \in DOMAIN map : map[k].ResultId = Head(batch).id
            THEN [k \in DOMAIN map |-> IF map[k].ResultId = Head(batch).id
                                        THEN Row(Head(batch)) ELSE map[k]]
            ELSE Append(map, Row(Head(batch))),
            Tail(batch))

\* for res in batch_to_process: if res_id not in all_extracted_map:
\* all_extracted_map[res_id] = row
RECURSIVE Extract(_, _)
Extract(map, batch) ==
    IF batch = <<>> THEN map
    ELSE Extract(IF \E k \in DOMAIN map : map[k].ResultId = Head(batch).id
                 THEN map
                 ELSE Append(map, Row(Head(batch))),
                 Tail(batch))

\* the cursor stays where it is
OffsetKept(cursor) == cursor

\* offset += limit
NextOffset(cursor) == cursor + limit

\* a failure ends the loop over the filter sets
SetsAbandoned(set) == Len(filter_sets) + 1

\* break: the while loop is left, the for loop takes the next filter set
SetAfterBreak(set) == set + 1

\* the results API.  A server of mode "n+1" holds a list of results for each
\* filter set and answers a request with the results cursor .. cursor+limit of
\* the list (limit+1 of them when more remain); a server of mode "any"
\* answers with any page of at most limit+1 results.  Either may fail.
Server(mode, records) == [mode |-> mode, records |-> records]

\* results first+1 .. first+n, as the filter set holds them
Held(set, first, n) == [k \in 1..n |-> Result(first + k, <<set, k>>)]

\* the servers that follow the N+1 convention: the archived results are the
\* all-time results over again, or other results
ListServers ==
    {Server("n+1", <<Held(1, 0, n1), Held(2, first, n2)>>) :
        n1 \in 0..MaxRecords, n2 \in 0..MaxRecords, first \in {0, MaxRecords}}

AnyServer == Server("any", <<>>)

\* the lists of at most n of the ids
RECURSIVE IdLists(_)
IdLists(n) ==
    IF n = 0 THEN {<<>>}
    ELSE IdLists(n - 1) \cup {Append(ids, id) : ids \in IdLists(n - 1), id \in 1..MaxIds}

\* what the n-th request, for the filter set and the cursor, may be answered
Responses(api, set, cursor, n) ==
    {Failure} \cup
    IF api.mode = "n+1"
    THEN LET held == api.records[set]
             last == IF cursor + limit + 1 < Len(held) THEN cursor + limit + 1
                     ELSE Len(held)
         IN  {Page(SubSeq(held, cursor + 1, last))}
    ELSE {Page([k \in DOMAIN ids |-> Result(ids[k], <<n, k>>)]) : ids \in IdLists(limit + 1)}

\* all_extracted_map = {}
FetchBegin ==
    /\ fetch_pc = "init"
    /\ all_extracted_map' = <<>>
    /\ page_log' = <<>>
    /\ filter_set' = 1
    /\ fetch_pc' = "sets"
    /\ UNCHANGED <<doc, impl, tracer, history, steps, extractor, associator, describer,
                   server, offset, has_more>>

\* for fs in filter_sets: offset = 0, has_more = True
NextFilterSet ==
    /\ fetch_pc = "sets"
    /\ filter_set <= Len(filter_sets)
    /\ offset' = 0
    /\ has_more' = TRUE
    /\ fetch_pc' = "pages"
    /\ UNCHANGED <<doc, impl, tracer, history, steps, extractor, associator, describer,
                   server, filter_set, all_extracted_map, page_log>>

\* while has_more: one pass through the body, the request and what follows
FetchPage ==
    /\ fetch_pc = "pages"
    /\ has_more
    /\ server.mode = "n+1" \/ Len(page_log) < MaxRequests
    /\ \E response \in Responses(server, filter_set, offset, Len(page_log) + 1) :
        LET results == response.results
            batch_to_process == BatchToProcess(results)
        IN  /\ page_log' = Append(page_log, [set |-> filter_set, cursor |-> offset,
                                             status |-> response.status,
                                             results |-> results,
                                             batch |-> batch_to_process])
            /\ IF response.status = "error"
               THEN /\ filter_set' = SetAfterBreak(filter_set)
                    /\ fetch_pc' = "sets"
                    /\ UNCHANGED <<offset, has_more, all_extracted_map>>
               ELSE IF results = <<>>
               THEN /\ has_more' = FALSE
                    /\ filter_set' = SetAfterBreak(filter_set)
                    /\ fetch_pc' = "sets"
                    /\ UNCHANGED <<offset, all_extracted_map>>
               ELSE /\ all_extracted_map' = Extract(all_extracted_map, batch_to_process)
                    /\ IF Len(results) > limit
                       THEN offset' = NextOffset(offset) /\ UNCHANGED has_more
                       ELSE has_more' = FALSE /\ UNCHANGED offset
                    /\ UNCHANGED <<fetch_pc, filter_set>>
    /\ UNCHANGED <<doc, impl, tracer, history, steps, extractor, associator, describer,
                   server>>

\* has_more is False: the while loop ends
EndPages ==
    /\ fetch_pc = "pages"
    /\ ~has_more
    /\ filter_set' = filter_set + 1
    /\ fetch_pc' = "sets"
    /\ UNCHANGED <<doc, impl, tracer, history, steps, extractor, associator, describer,
                   server, offset, has_more, all_extracted_map, page_log>>

\* return list(all_extracted_map.values())
FetchReturn ==
    /\ fetch_pc = "sets"
    /\ filter_set > Len(filter_sets)
    /\ fetch_pc' = "done"
    /\ UNCHANGED <<doc, impl, tracer, history, steps, extractor, associator, describer,
                   server, filter_set, offset, has_more, all_extracted_map, page_log>>

(***************************************************************************)
(* The documents the tracer is run on.  A document has MaxGroups groups    *)
(* (ids 1..MaxGroups) of at most MaxBlocks blocks; block i of group g has  *)
(* id 10*g+i.  A link gives a block one more way out: an edge leaving the  *)
(* block ("own"), an item with an edge of its own ("item"), or the options *)
(* of a Jump block ("jump").                                               *)
(***************************************************************************)
BlockId(g, i) == 10 * g + i

GroupIds == 1..MaxGroups

DanglingGroup == MaxGroups + 1

DanglingVar == MaxVars + 1

Names == <<"A", "B", "C", "D", "E", "F">>

\* number of blocks of each group
Shapes == [GroupIds -> 0..MaxBlocks]

FullShape == [g \in GroupIds |-> MaxBlocks]

BlocksOf(shape) == UNION {{BlockId(g, i) : i \in 1..shape[g]} : g \in GroupIds}

\* where an edge or a Jump block may point: a group (also one that does not
\* exist), a block of a group, a block that is not in the group named, or a
\* block without a group
TargetsOf(shape) ==
    {To(g, None) : g \in GroupIds \cup {DanglingGroup}}
      \cup {To(b \div 10, b) : b \in BlocksOf(shape)}
      \cup {To(g, BlockId((g % MaxGroups) + 1, MaxBlocks)) : g \in GroupIds}
      \cup {To(None, BlockId(1, 1))}

Link(kind, block, to) == [kind |-> kind, block |-> block, to |-> to]

LinkKinds == {"own", "item", "jump"}

LinksOf(shape) ==
    {Link(k, b, t) : k \in LinkKinds, b \in BlocksOf(shape), t \in TargetsOf(shape)}

\* the chain of a survey: the last block of each group leads to the next group
Backbone(shape, kind) ==
    LET hop(g) == IF g < MaxGroups /\ shape[g] > 0
                  THEN <<Link(kind, BlockId(g, shape[g]), To(g + 1, None))>>
                  ELSE <<>>
    IN  Concat([g \in GroupIds |-> hop(g)])

\* the edges of the links, in link order; edge ids are the link positions
LinkEdges(links) ==
    LET edgeOf(k) ==
            IF links[k].kind = "own"
            THEN <<Edge(k, From(None, links[k].block, None, None), links[k].to)>>
            ELSE IF links[k].kind = "item"
            THEN <<Edge(k, From(None, links[k].block, links[k].block, None), links[k].to)>>
            ELSE <<>>
    IN  Concat([k \in DOMAIN links |-> edgeOf(k)])

HasLink(links, kind, b) == \E k \in DOMAIN links : links[k].kind = kind /\ links[k].block = b

FirstLink(links, kind, b) ==
    links[CHOOSE k \in DOMAIN links :
            /\ links[k].kind = kind /\ links[k].block = b
            /\ \A j \in 1..(k - 1) : ~(links[j].kind = kind /\ links[j].block = b)]

\* block b bound to variable id v, with the item and the Jump options its links give
LinkedBlock(b, v, links) ==
    Block(b,
          IF HasLink(links, "jump", b) THEN "Jump"
          ELSE IF HasLink(links, "item", b) THEN "choice input"
          ELSE IF v # None THEN "text input"
          ELSE "text",
          v,
          IF HasLink(links, "item", b) THEN <<Item(b, None, <<>>)>> ELSE <<>>,
          IF HasLink(links, "jump", b) THEN FirstLink(links, "jump", b).to.groupId ELSE None,
          IF HasLink(links, "jump", b) THEN FirstLink(links, "jump", b).to.blockId ELSE None)

\* how the flow is entered: the events, the edges leaving them, startGroupId
Entry(events, edges, startGroupId) ==
    [events |-> events, edges |-> edges, startGroupId |-> startGroupId]

EventEdge(id, event, to) == Edge(id, From(event, None, None, None), to)

\* the usual entry: one start event with an edge to target
StartAt(to) == Entry(<<Event(1, "start")>>, <<EventEdge(101, 1, to)>>, None)

MakeDoc(shape, binding, links, entry, variables) ==
    [groups |-> [g \in GroupIds |->
                    Group(g, [i \in 1..shape[g] |->
                                LinkedBlock(BlockId(g, i), binding[BlockId(g, i)], links)])],
     edges |-> entry.edges \o LinkEdges(links),
     events |-> entry.events,
     startGroupId |-> entry.startGroupId,
     variables |-> variables]

\* the k-th block of the document writes variable k, the blocks after the
\* MaxVars-th write nothing
Position(shape, b) ==
    LET g == b \div 10
        before == {BlockId(h, i) : h \in 1..(g - 1), i \in 1..MaxBlocks} \cap BlocksOf(shape)
    IN  Cardinality(before) + (b % 10)

DefaultBinding(shape) ==
    [b \in BlocksOf(shape) |->
        IF Position(shape, b) <= MaxVars THEN Position(shape, b) ELSE None]

DefaultVariables == [k \in 1..MaxVars |-> Variable(k, Names[k])]

\* one way out more than the chain, from any block to any target, entered at
\* the start or in the middle of any group
LinkDocs ==
    {MakeDoc(FullShape, DefaultBinding(FullShape), extra \o Backbone(FullShape, chain),
             StartAt(to), DefaultVariables) :
        chain \in LinkKinds,
        extra \in {<<>>} \cup {<<l>> : l \in LinksOf(FullShape)},
        to \in {To(g, None) : g \in GroupIds}
                 \cup {To(g, BlockId(g, MaxBlocks)) : g \in GroupIds}}

\* every way of entering the flow, over groups of every size
Entries(shape) ==
    {Entry(<<Event(1, type)>>, edges, start) :
        type \in {"start", "command"},
        edges \in {<<>>} \cup {<<EventEdge(101, 1, t)>> : t \in TargetsOf(shape)}
                    \cup {<<EventEdge(101, 1, To(MaxGroups, None)),
                            EventEdge(102, 1, To(1, None))>>},
        start \in {None} \cup GroupIds \cup {DanglingGroup}}
      \cup {Entry(<<>>, <<>>, None)}

EntryDocs ==
    UNION {{MakeDoc(shape, DefaultBinding(shape), Backbone(shape, "own"), entry,
                    DefaultVariables) : entry \in Entries(shape)} : shape \in Shapes}

\* the declarations of the variables: in any rotation of the id order or of
\* its reverse, one variable possibly carrying the name of another
Rotations ==
    {[k \in 1..MaxVars |-> ((k + r) % MaxVars) + 1] : r \in 0..(MaxVars - 1)}
      \cup {[k \in 1..MaxVars |-> MaxVars - ((k + r) % MaxVars)] : r \in 0..(MaxVars - 1)}

Declarations ==
    {[k \in 1..MaxVars |->
         Variable(order[k], IF order[k] = v THEN Names[w] ELSE Names[order[k]])] :
        order \in Rotations, v \in 1..MaxVars, w \in 1..MaxVars}

\* the chain with one block writing any variable (also none, or one that is
\* not declared), under every declaration
VarDocs ==
    {MakeDoc(FullShape, [DefaultBinding(FullShape) EXCEPT ![b] = v],
             Backbone(FullShape, "own"), StartAt(to), decl) :
        b \in BlocksOf(FullShape), v \in 0..DanglingVar,
        to \in {To(1, None), To(1, BlockId(1, MaxBlocks))},
        decl \in Declarations}

\* the first block of the flow with two more ways out, of two kinds
HubDocs ==
    {MakeDoc(FullShape, DefaultBinding(FullShape),
             <<Link(k1, BlockId(1, 1), t1), Link(k2, BlockId(1, 1), t2)>>
                \o Backbone(FullShape, "own"),
             StartAt(To(1, None)), DefaultVariables) :
        k1 \in LinkKinds, k2 \in LinkKinds,
        t1 \in TargetsOf(FullShape), t2 \in TargetsOf(FullShape)}

TraceDocs == LinkDocs \cup HubDocs \cup EntryDocs \cup VarDocs

(***************************************************************************)
(* The documents generate_constraints is run on.  Group 1 has ConsBlocks   *)
(* blocks, group 2 one or two; block i of group 1 writes variable i unless *)
(* said otherwise.  Item k of block b has id 10*b+k, and so has its edge.  *)
(***************************************************************************)
\* a declared variable with an empty name, and a variable id not declared
NamelessVar == ConsBlocks + 1

UndeclaredVar == ConsBlocks + 2

ConsVariables ==
    [k \in 1..NamelessVar |-> Variable(k, IF k = NamelessVar THEN "" ELSE Names[k])]

Operators == {"Equal to", "Contains", "Does not contain", "Not equal", "Greater than"}

\* what an input field of the form looks like
Field(b, type, v) == Block(b, type, v, <<>>, None, None)

DefaultField(b) == Field(b, "text input", b % 10)

\* what a block other than the plain input field of a declared variable can be
FieldKinds ==
    {[type |-> "text", var |-> 1], [type |-> "Set variable", var |-> 1],
     [type |-> "Number Input", var |-> 1], [type |-> "", var |-> 1], [type |-> "choice input", var |-> 1],
     [type |-> "text input", var |-> None], [type |-> "text input", var |-> UndeclaredVar],
     [type |-> "text input", var |-> NamelessVar]}

\* how an item leaves its block: without outgoingEdgeId, with the id of an
\* edge the document does not have, or with an edge to a target
NoLink == [edge |-> "none", to |-> To(None, None)]

MissingLink == [edge |-> "missing", to |-> To(None, None)]

LinkTo(to) == [edge |-> "to", to |-> to]

Branch(comparisons, link) == [comparisons |-> comparisons, link |-> link, content |-> "dict"]

\* a branch whose item has no content, or null for content
BranchWithout(content, link) == [comparisons |-> <<>>, link |-> link, content |-> content]

\* the items of block b and their edges, from the branches
BranchItems(b, branches) ==
    [k \in DOMAIN branches |->
        IF branches[k].content = "dict"
        THEN Item(10 * b + k,
                  IF branches[k].link.edge = "none" THEN None ELSE 10 * b + k,
                  branches[k].comparisons)
        ELSE ItemWithout(10 * b + k,
                         IF branches[k].link.edge = "none" THEN None ELSE 10 * b + k,
                         branches[k].content)]

BranchEdges(b, branches) ==
    LET edgeOf(k) ==
            IF branches[k].link.edge = "to"
            THEN <<Edge(10 * b + k, From(None, b, 10 * b + k, None), branches[k].link.to)>>
            ELSE <<>>
    IN  Concat([k \in DOMAIN branches |-> edgeOf(k)])

Cond(b, branches) == Block(b, "Condition", None, BranchItems(b, branches), None, None)

ConsDoc(blocks1, blocks2, edges) ==
    [groups |-> <<Group(1, blocks1), Group(2, blocks2)>>,
     edges |-> edges,
     events |-> <<>>,
     startGroupId |-> None,
     variables |-> ConsVariables]

\* where the edge of an item may lead
ConsTargets ==
    {To(g, None) : g \in {1, 2, DanglingGroup}}
      \cup {To(g, BlockId(1, k)) : g \in {None, 1, 2, DanglingGroup}, k \in 1..ConsBlocks}
      \cup {To(g, BlockId(2, 1)) : g \in {None, 1, 2}}
      \cup {To(None, BlockId(1, ConsBlocks + 1)), To(None, None)}

ConsLinks == {NoLink, MissingLink} \cup {LinkTo(t) : t \in ConsTargets}

\* the comparisons of an item of the condition on variable v
ComparisonLists(v) ==
    {<<>>}
      \cup {<<Comparison(v, op, "x")>> : op \in Operators}
      \cup {<<Comparison(w, "Equal to", "x")>> : w \in {None, NamelessVar, UndeclaredVar}}
      \cup {<<Comparison(v, "Contains", "x"), Comparison(UndeclaredVar, "Equal to", "y")>>,
            <<Comparison(UndeclaredVar, "Contains", "x"), Comparison(v, "Equal to", "y")>>}

\* group 1 with the condition at place c and one block, at place p, of kind
\* kind (p = c: every other block is an input field)
CondGroup(c, p, kind, branches) ==
    [i \in 1..ConsBlocks |->
        IF i = c THEN Cond(BlockId(1, i), branches)
        ELSE IF i = p THEN Field(BlockId(1, i), kind.type, kind.var)
        ELSE DefaultField(BlockId(1, i))]

\* one condition with one item: any place, any edge, any comparisons
ItemDocs ==
    {ConsDoc(CondGroup(c, c, [type |-> "text", var |-> None], <<Branch(cmp, link)>>),
             <<DefaultField(BlockId(2, 1))>>,
             BranchEdges(BlockId(1, c), <<Branch(cmp, link)>>)) :
        c \in 1..ConsBlocks, link \in ConsLinks, cmp \in ComparisonLists(1)}

\* one condition with one item and one block that is not a plain input field
WindowDocs ==
    {ConsDoc(CondGroup(c, p, kind, <<Branch(<<Comparison(c, "Equal to", "x")>>, link)>>),
             <<DefaultField(BlockId(2, 1))>>,
             BranchEdges(BlockId(1, c), <<Branch(<<Comparison(c, "Equal to", "x")>>, link)>>)) :
        c \in 1..ConsBlocks, p \in 1..ConsBlocks, kind \in FieldKinds, link \in ConsLinks}

\* the branches of a condition that is followed by input fields: out of the
\* group, over the fields to the last block, without comparisons, with the
\* id of an edge that does not exist, to the next block, without
\* outgoingEdgeId, without content, with null for content
BranchKinds(b) ==
    {Branch(<<Comparison(1, "Equal to", "x")>>, LinkTo(To(3 - (b \div 10), None))),
     Branch(<<Comparison(1, "Not equal", "x")>>, LinkTo(To(b \div 10, BlockId(b \div 10, ConsBlocks)))),
     Branch(<<>>, LinkTo(To(3 - (b \div 10), None))),
     Branch(<<Comparison(1, "Equal to", "x")>>, MissingLink),
     Branch(<<Comparison(1, "Equal to", "x")>>, LinkTo(To(b \div 10, b + 1))),
     Branch(<<Comparison(1, "Equal to", "x")>>, NoLink),
     BranchWithout("absent", LinkTo(To(3 - (b \div 10), None))),
     BranchWithout("null", LinkTo(To(3 - (b \div 10), None)))}

RECURSIVE BranchLists(_, _)
BranchLists(b, n) ==
    IF n = 0 THEN {<<>>}
    ELSE BranchLists(b, n - 1)
           \cup {Append(l, x) : l \in {m \in BranchLists(b, n - 1) : Len(m) = n - 1},
                                x \in BranchKinds(b)}

\* a condition with several items at the head of group 1, and one with at
\* most one item at the head of group 2
OrderDocs ==
    {ConsDoc(CondGroup(1, 1, [type |-> "text", var |-> None], b1),
             <<Cond(BlockId(2, 1), b2), DefaultField(BlockId(2, 2))>>,
             BranchEdges(BlockId(1, 1), b1) \o BranchEdges(BlockId(2, 1), b2)) :
        b1 \in BranchLists(BlockId(1, 1), MaxItems), b2 \in BranchLists(BlockId(2, 1), 1)}

ConsDocs == ItemDocs \cup WindowDocs \cup OrderDocs

(***************************************************************************)
(* The documents extract_questions is run on: group 1 has QuesBlocks       *)
(* blocks of any kind, group 2 begins with an input block.                 *)
(***************************************************************************)
TextBlock(b, rich_text) ==
    [Block(b, "text", None, <<>>, None, None) EXCEPT !.text = rich_text]

\* "Q1?" in one child
RichOne == << << <<"Q", "1", "?">> >> >>

\* " Q2" and "? " in two children of one element, a blank element, "b"
RichTwo == << << <<" ", "Q", "2">>, <<"?", " ">> >>, << <<" ">> >>, << <<"b">> >> >>

\* nothing but blanks
RichBlank == << << <<" ">>, <<>> >>, <<>> >>

QuesKinds(b) ==
    {TextBlock(b, RichOne), TextBlock(b, RichTwo), TextBlock(b, RichBlank)}
      \cup {Field(b, "text input", v) : v \in {1, 2, None, UndeclaredVar, NamelessVar}}
      \cup {Field(b, type, 1) :
                type \in {"Number Input", "picture choice input", "Set variable", ""}}

QuesGroups ==
    {[i \in 1..QuesBlocks |-> [kind[i] EXCEPT !.id = BlockId(1, i)]] :
        kind \in [1..QuesBlocks -> QuesKinds(None)]}

QuesDocs ==
    {ConsDoc(blocks, <<Field(BlockId(2, 1), "text input", 3)>>, <<>>) : blocks \in QuesGroups}

Idle ==
    /\ cons_pc = "off"
    /\ constraints = <<>>
    /\ block_cursor = 0
    /\ item_cursor = 0
    /\ emitted = <<>>
    /\ windows = <<>>

QuesIdle ==
    /\ ques_pc = "off"
    /\ questions_map = <<>>
    /\ group_cursor = 0
    /\ block_index = 0
    /\ last_text_content = <<>>
    /\ pending_source = None
    /\ recorded = <<>>

\* get_ordered_variables is not called
TraceIdle ==
    /\ pc = "off"
    /\ run = 1
    /\ start_targets = <<>>
    /\ ordered_variables = <<>>
    /\ visited_groups = {}
    /\ stack = <<>>
    /\ first_result = <<>>
    /\ entry_points = <<>>
    /\ entered_log = <<>>
    /\ guard_hits = <<>>
    /\ scan_log = <<>>
    /\ call_log = <<>>
    /\ capture_log = <<>>
    /\ traversed = <<>>
    /\ steps = 0

MetaIdle ==
    /\ meta_pc = "off"
    /\ ordered_vars = <<>>
    /\ target_vars = <<>>
    /\ meta_cursor = 0
    /\ columns_metadata = <<>>

FetchIdle ==
    /\ fetch_pc = "off"
    /\ server = AnyServer
    /\ filter_set = 0
    /\ offset = 0
    /\ has_more = FALSE
    /\ all_extracted_map = <<>>
    /\ page_log = <<>>

Init ==
    /\ Idle
    /\ QuesIdle
    /\ MetaIdle
    /\ FetchIdle
    /\ doc \in TraceDocs
    /\ impl \in {1, 2}
    /\ pc = "init"
    /\ run = 1
    /\ start_targets = <<>>
    /\ ordered_variables = <<>>
    /\ visited_groups = {}
    /\ stack = <<>>
    /\ first_result = <<>>
    /\ entry_points = <<>>
    /\ entered_log = <<>>
    /\ guard_hits = <<>>
    /\ scan_log = <<>>
    /\ call_log = <<>>
    /\ capture_log = <<>>
    /\ traversed = <<>>
    /\ steps = 0

Next ==
    \/ Begin
    \/ NextStart
    \/ Enter
    \/ ScanBlock
    \/ CallTarget
    \/ Return
    \/ Fallback
    \/ Rerun

Spec == Init /\ [][Next]_vars

\* the program is one thread that runs on until it returns
FairSpec == Spec /\ WF_vars(Next)

\* the caller keeps the result and calls get_ordered_variables of the other
\* file on the same document
RunOther ==
    /\ pc = "done"
    /\ steps' = steps + 1
    /\ UNCHANGED <<extractor, associator, describer, fetcher>>
    /\ run = 1
    /\ first_result' = ordered_variables
    /\ impl' = 3 - impl
    /\ run' = 2
    /\ pc' = "init"
    /\ UNCHANGED <<doc, start_targets, ordered_variables, visited_groups, stack, history>>

BothNext ==
    \/ Begin
    \/ NextStart
    \/ Enter
    \/ ScanBlock
    \/ CallTarget
    \/ Return
    \/ Fallback
    \/ RunOther

\* the documents of the tracer, and the chain without a way into the flow
\* under every declaration
BothDocs ==
    TraceDocs \cup
    {MakeDoc(FullShape, DefaultBinding(FullShape), Backbone(FullShape, "own"),
             Entry(<<>>, <<>>, None), decl) : decl \in Declarations}

BothInit ==
    /\ Idle
    /\ QuesIdle
    /\ MetaIdle
    /\ FetchIdle
    /\ doc \in BothDocs
    /\ impl \in {1, 2}
    /\ pc = "init"
    /\ run = 1
    /\ start_targets = <<>>
    /\ ordered_variables = <<>>
    /\ visited_groups = {}
    /\ stack = <<>>
    /\ first_result = <<>>
    /\ entry_points = <<>>
    /\ entered_log = <<>>
    /\ guard_hits = <<>>
    /\ scan_log = <<>>
    /\ call_log = <<>>
    /\ capture_log = <<>>
    /\ traversed = <<>>
    /\ steps = 0

\* the two copies of the tracer, one after the other on one document
BothSpec == BothInit /\ [][BothNext]_vars

\* generate_constraints is called on a document; the tracer does not run
ConsInit ==
    /\ QuesIdle
    /\ MetaIdle
    /\ FetchIdle
    /\ doc \in ConsDocs
    /\ impl \in {1, 2}
    /\ pc = "off"
    /\ run = 1
    /\ start_targets = <<>>
    /\ ordered_variables = <<>>
    /\ visited_groups = {}
    /\ stack = <<>>
    /\ first_result = <<>>
    /\ entry_points = <<>>
    /\ entered_log = <<>>
    /\ guard_hits = <<>>
    /\ scan_log = <<>>
    /\ call_log = <<>>
    /\ capture_log = <<>>
    /\ traversed = <<>>
    /\ steps = 0
    /\ cons_pc = "init"
    /\ constraints = <<>>
    /\ block_cursor = 0
    /\ item_cursor = 0
    /\ emitted = <<>>
    /\ windows = <<>>

ConsNext ==
    \/ ConsBegin
    \/ NextBlock
    \/ NextItem
    \/ EndItems
    \/ ConsReturn

ConsSpec == ConsInit /\ [][ConsNext]_vars

\* extract_questions is called on a document; nothing else runs
QuesInit ==
    /\ Idle
    /\ MetaIdle
    /\ FetchIdle
    /\ doc \in QuesDocs
    /\ impl \in {1, 2}
    /\ pc = "off"
    /\ run = 1
    /\ start_targets = <<>>
    /\ ordered_variables = <<>>
    /\ visited_groups = {}
    /\ stack = <<>>
    /\ first_result = <<>>
    /\ entry_points = <<>>
    /\ entered_log = <<>>
    /\ guard_hits = <<>>
    /\ scan_log = <<>>
    /\ call_log = <<>>
    /\ capture_log = <<>>
    /\ traversed = <<>>
    /\ steps = 0
    /\ ques_pc = "init"
    /\ questions_map = <<>>
    /\ group_cursor = 0
    /\ block_index = 0
    /\ last_text_content = <<>>
    /\ pending_source = None
    /\ recorded = <<>>

QuesNext ==
    \/ QuesBegin
    \/ NextGroup
    \/ QuesBlock
    \/ EndGroup
    \/ QuesReturn

QuesSpec == QuesInit /\ [][QuesNext]_vars

(***************************************************************************)
(* The documents generate_metadata is run on: the first block writes       *)
(* variable 1 and is of any type, the others are of a few types and write  *)
(* any variable; the last block is alone in group 2.                       *)
(***************************************************************************)
MetaTypes == SdtypeTypes \cup {"Number Input", "Set variable", "file input"}

MetaKinds(k) ==
    IF k = 1 THEN {Field(None, type, 1) : type \in MetaTypes}
    ELSE {Field(None, type, v) : type \in {"choice input", "rating input", "Set variable"},
                                 v \in {1, 2, None, DanglingVar}}

\* no variable; two; two ids of one name; one without name
MetaVariables ==
    {<<>>, <<Variable(1, "A"), Variable(2, "B")>>, <<Variable(1, "A"), Variable(2, "A")>>,
     <<Variable(1, "A"), Variable(2, "")>>}

MetaBlockLists ==
    {[k \in 1..MetaBlocks |-> [kinds[k] EXCEPT !.id = k]] :
        kinds \in {f \in [1..MetaBlocks -> UNION {MetaKinds(k) : k \in 1..MetaBlocks}] :
                        \A k \in 1..MetaBlocks : f[k] \in MetaKinds(k)}}

MetaDocs ==
    {[ConsDoc(SubSeq(blocks, 1, MetaBlocks - 1), <<blocks[MetaBlocks]>>, <<>>)
        EXCEPT !.variables = variables] :
        blocks \in MetaBlockLists, variables \in MetaVariables}

Reversed(seq) == [k \in DOMAIN seq |-> seq[Len(seq) + 1 - k]]

\* what get_ordered_variables can return for the document, and what main
\* makes of it: the declared names, each once, in some order
Orders(bot) ==
    LET names == AppendMissing(<<>>, variables_values(bot))
    IN  {names, Reversed(names)}

\* generate_metadata is called on a document and a list of its names
MetaInit ==
    /\ TraceIdle
    /\ Idle
    /\ QuesIdle
    /\ FetchIdle
    /\ doc \in MetaDocs
    /\ impl \in {1, 2}
    /\ meta_pc = "init"
    /\ ordered_vars \in Orders(doc)
    /\ target_vars = <<>>
    /\ meta_cursor = 0
    /\ columns_metadata = <<>>

MetaNext ==
    \/ MetaBegin
    \/ MetaVar
    \/ MetaBlock
    \/ MetaReturn

MetaSpec == MetaInit /\ [][MetaNext]_vars

\* fetch_all_results is called against a server
FetchInit ==
    /\ TraceIdle
    /\ Idle
    /\ QuesIdle
    /\ MetaIdle
    /\ doc \in {ConsDoc(<<>>, <<>>, <<>>)}
    /\ impl = 2
    /\ fetch_pc = "init"
    /\ server \in ListServers \cup {AnyServer}
    /\ filter_set = 0
    /\ offset = 0
    /\ has_more = FALSE
    /\ all_extracted_map = <<>>
    /\ page_log = <<>>

FetchNext ==
    \/ FetchBegin
    \/ NextFilterSet
    \/ FetchPage
    \/ EndPages
    \/ FetchReturn

FetchSpec == FetchInit /\ [][FetchNext]_vars

(***************************************************************************)
(* The three functions on one document, as main and process_bot call them: *)
(* here in any interleaving of their steps.  Group 1 of the document has a *)
(* text, a Condition block and an input field, group 2 a text and two      *)
(* fields.                                                                 *)
(***************************************************************************)
AllBranches ==
    {<<>>,
     <<Branch(<<Comparison(3, "Equal to", "x")>>, LinkTo(To(2, BlockId(2, 3))))>>,
     <<Branch(<<Comparison(3, "Contains", "y")>>, LinkTo(To(2, None))),
       Branch(<<Comparison(3, "Not equal", "x")>>, NoLink)>>}

AllEntries == {StartAt(To(1, None)), StartAt(To(2, BlockId(2, 2))), Entry(<<>>, <<>>, None)}

AllDocs ==
    {[ConsDoc(<<TextBlock(BlockId(1, 1), RichOne), Cond(BlockId(1, 2), branches),
                Field(BlockId(1, 3), "text input", 1)>>,
              <<TextBlock(BlockId(2, 1), rich), Field(BlockId(2, 2), type, 2),
                Field(BlockId(2, 3), "text input", 3)>>,
              entry.edges \o BranchEdges(BlockId(1, 2), branches))
        EXCEPT !.events = entry.events] :
        branches \in AllBranches, entry \in AllEntries, rich \in {RichTwo, RichBlank},
        type \in {"choice input", "Set variable"}}

AllInit ==
    /\ MetaIdle
    /\ FetchIdle
    /\ doc \in AllDocs
    /\ impl \in {1, 2}
    /\ pc = "init"
    /\ run = 1
    /\ start_targets = <<>>
    /\ ordered_variables = <<>>
    /\ visited_groups = {}
    /\ stack = <<>>
    /\ first_result = <<>>
    /\ entry_points = <<>>
    /\ entered_log = <<>>
    /\ guard_hits = <<>>
    /\ scan_log = <<>>
    /\ call_log = <<>>
    /\ capture_log = <<>>
    /\ traversed = <<>>
    /\ steps = 0
    /\ cons_pc = "init"
    /\ constraints = <<>>
    /\ block_cursor = 0
    /\ item_cursor = 0
    /\ emitted = <<>>
    /\ windows = <<>>
    /\ ques_pc = "init"
    /\ questions_map = <<>>
    /\ group_cursor = 0
    /\ block_index = 0
    /\ last_text_content = <<>>
    /\ pending_source = None
    /\ recorded = <<>>

AllNext ==
    \/ Next
    \/ ConsNext
    \/ QuesNext

AllSpec == AllInit /\ [][AllNext]_vars

(***************************************************************************)
(* What the properties speak about.                                        *)
(***************************************************************************)
DeclaredNames(bot) == {bot.variables[k].name : k \in DOMAIN bot.variables}

Declared(bot, id) == \E k \in DOMAIN bot.variables : bot.variables[k].id = id

\* the name declared for a variable id that is declared once
NameOf(bot, id) == (CHOOSE v \in Range(bot.variables) : v.id = id).name

\* the blocks the loop has read so far
ScannedBlocks ==
    {groups_get(doc, scan_log[k].group_id).blocks[scan_log[k].i] : k \in DOMAIN scan_log}

Finished == pc = "done"

\* C1: when get_ordered_variables returns, its list has no duplicate entry,
\* holds exactly the variable names the document declares, and is as long as
\* the number of distinct declared names.
C1_EveryNameOnce ==
    Finished =>
        /\ NoDup(ordered_variables)
        /\ Range(ordered_variables) = DeclaredNames(doc)
        /\ Len(ordered_variables) = Cardinality(DeclaredNames(doc))

\* two scanned blocks write two different variable ids that carry one name
C1_Witness ==
    /\ Finished
    /\ \E b1, b2 \in ScannedBlocks :
          /\ b1.variableId # b2.variableId
          /\ Declared(doc, b1.variableId) /\ Declared(doc, b2.variableId)
          /\ NameOf(doc, b1.variableId) = NameOf(doc, b2.variableId)
    /\ Range(traversed) # DeclaredNames(doc)

(***************************************************************************)
(* The work a call of get_ordered_variables still has to do, counted in    *)
(* steps: one per block to read, two per recursive call to make (the call  *)
(* and its guard), one per return.  A group not yet visited counts with    *)
(* all its blocks; a group that does not exist costs its caller nothing    *)
(* more than the call.                                                     *)
(***************************************************************************)
RECURSIVE Sum(_)
Sum(s) == IF s = <<>> THEN 0 ELSE Head(s) + Sum(Tail(s))

LoopWork(blocks, i) ==
    Sum([k \in 1..(Len(blocks) - i + 1) |->
            1 + 2 * Len(BlockCalls(doc, blocks[i + k - 1]))])

GroupWork(g) == 1 + LoopWork(groups_get(doc, g).blocks, 1)

FrameWork(frame) ==
    IF frame.entered
    THEN LoopWork(groups_get(doc, frame.group_id).blocks, frame.i)
            + 2 * Len(frame.calls) + 1
    ELSE 1

UnvisitedWork(visited) ==
    LET ids == DictKeys(doc.groups)
    IN  Sum([k \in DOMAIN ids |-> IF ids[k] \in visited THEN 0 ELSE GroupWork(ids[k])])

TraceWork ==
    2 * Len(start_targets) + Sum([k \in DOMAIN stack |-> FrameWork(stack[k])])
        + UnvisitedWork(visited_groups) + 1

\* the work of a whole call, and of the calls still to come
CallWork == 2 * Len(StartTargets(doc, impl)) + UnvisitedWork({}) + 2

Remaining ==
    (IF run = 1 THEN CallWork + 1 ELSE 0)
        + (IF pc = "init" THEN CallWork
           ELSE IF pc = "trace" THEN TraceWork
           ELSE 0)

\* C2: every call of get_ordered_variables ends, the fallback pass done, also
\* when edges or Jump blocks lead back into a group whose loop is running:
\* the steps taken and the work that remains never add up to more than the
\* work of the two calls, so that each step takes from the work that remains,
\* and the recursion never runs into Python's limit.
C2_Terminates ==
    /\ Remaining >= 0
    /\ steps + Remaining <= 2 * CallWork + 1
    /\ pc # "error"

\* the traversal was led back into a group whose loop was running, and ended
C2_Witness ==
    /\ Finished
    /\ \E k \in DOMAIN guard_hits : guard_hits[k].active

(***************************************************************************)
(* A purely linear flow: the start event leads to the first group, the     *)
(* last block of each group leads to the next group, and nothing else      *)
(* leaves a block; every declared variable is written by one block.        *)
(***************************************************************************)
LeadsToStartOf(to, group) ==
    /\ to.groupId = group.id
    /\ to.blockId \in {None, group.blocks[1].id}

IsEntryEdge(bot, e) ==
    /\ e.from = From(bot.events[1].id, None, None, None)
    /\ LeadsToStartOf(e.to, bot.groups[1])

IsHop(bot, e, g) ==
    /\ e.from = From(None, bot.groups[g].blocks[Len(bot.groups[g].blocks)].id, None, None)
    /\ LeadsToStartOf(e.to, bot.groups[g + 1])

\* the variable ids the blocks write, in block order
FlowIds(bot) ==
    LET bound == SelectSeq(AllBlocks(bot), LAMBDA b : b.variableId # None)
    IN  [k \in DOMAIN bound |-> bound[k].variableId]

IsLinearFlow(bot) ==
    /\ bot.groups # <<>>
    /\ \A g \in DOMAIN bot.groups : bot.groups[g].blocks # <<>>
    /\ Len(bot.events) = 1 /\ bot.events[1].type = "start"
    /\ \A k \in DOMAIN AllBlocks(bot) :
          AllBlocks(bot)[k].items = <<>> /\ AllBlocks(bot)[k].type # "Jump"
    /\ Len(bot.edges) = Len(bot.groups)
    /\ \E k \in DOMAIN bot.edges : IsEntryEdge(bot, bot.edges[k])
    /\ \A g \in 1..(Len(bot.groups) - 1) :
          \E k \in DOMAIN bot.edges : IsHop(bot, bot.edges[k], g)
    /\ NoDup(FlowIds(bot))
    /\ Range(FlowIds(bot)) = {bot.variables[k].id : k \in DOMAIN bot.variables}
    /\ Cardinality(DeclaredNames(bot)) = Len(bot.variables)

StartEventTargets(bot) ==
    Concat([k \in DOMAIN bot.events |->
               IF bot.events[k].type = "start"
               THEN LET leaving == SelectSeq(bot.edges,
                                      LAMBDA e : e.from.eventId = bot.events[k].id)
                    IN  [j \in DOMAIN leaving |-> leaving[j].to]
               ELSE <<>>])

ExpectedEntry(bot) ==
    IF StartEventTargets(bot) # <<>> THEN StartEventTargets(bot)
    ELSE IF bot.startGroupId # None THEN <<To(bot.startGroupId, None)>>
    ELSE IF bot.groups # <<>> THEN <<To(bot.groups[1].id, None)>>
    ELSE <<>>

\* C4: the traversal starts from the targets of the edges that leave a
\* start-type event; without any, from startGroupId; without that, from the
\* first group in declaration order.
C4_EntryPriority == (pc # "init") => entry_points = ExpectedEntry(doc)

\* C5: during one call of get_ordered_variables no group is entered twice and
\* no block is read twice: a call of trace_flow for a group id that is in the
\* visited set reads no block and appends nothing.
C5_GroupScannedOnce ==
    /\ \A p, q \in DOMAIN entered_log :
          p # q => entered_log[p].group_id # entered_log[q].group_id
    /\ NoDup(scan_log)
    /\ \A k \in DOMAIN scan_log :
          \E p \in DOMAIN entered_log :
             /\ entered_log[p].group_id = scan_log[k].group_id
             /\ entered_log[p].start_idx <= scan_log[k].i

\* a second call for a group that has blocks came back from the guard
C5_Witness ==
    /\ Finished
    /\ \E k \in DOMAIN guard_hits :
          /\ groups_has(doc, guard_hits[k].group_id)
          /\ groups_get(doc, guard_hits[k].group_id).blocks # <<>>
          /\ ~guard_hits[k].active

(***************************************************************************)
(* Where a group is entered, and what is left out before that block.       *)
(***************************************************************************)
\* the index the scan starts at, as stated: the entry block's, else the first
EntryIndex(blocks, start_block_id) ==
    IF \E k \in DOMAIN blocks : blocks[k].id = start_block_id
    THEN IndexOf([k \in DOMAIN blocks |-> blocks[k].id], start_block_id)
    ELSE 1

ScannedIndices(group_id) ==
    {scan_log[k].i : k \in {j \in DOMAIN scan_log : scan_log[j].group_id = group_id}}

\* the declared names the scanned blocks write
ScannedNames ==
    {NameOf(doc, b.variableId) : b \in {c \in ScannedBlocks : Declared(doc, c.variableId)}}

FallbackPart == SubSeq(ordered_variables, Len(traversed) + 1, Len(ordered_variables))

\* the blocks of an entered group that lie before its entry block
LeftOut(entered) ==
    LET blocks == groups_get(doc, entered.group_id).blocks
    IN  {blocks[j] : j \in 1..(EntryIndex(blocks, entered.start_block_id) - 1)}

ScansFromEntry(entered) ==
    LET blocks == groups_get(doc, entered.group_id).blocks
    IN  ScannedIndices(entered.group_id)
            = EntryIndex(blocks, entered.start_block_id)..Len(blocks)

\* C6 as stated: a group is scanned from its entry block to its end, and the
\* variables of the blocks before the entry block are not collected by the
\* traversal: they come only from the fallback pass.
C6_AsStated ==
    Finished =>
        \A k \in DOMAIN entered_log :
            /\ ScansFromEntry(entered_log[k])
            /\ \A b \in LeftOut(entered_log[k]) :
                  Declared(doc, b.variableId) =>
                      /\ NameOf(doc, b.variableId) \notin Range(traversed)
                      /\ NameOf(doc, b.variableId) \in Range(FallbackPart)

\* C6: a group is scanned from its entry block to its end, once; a variable
\* of a block before the entry block is collected by the traversal only if a
\* scanned block writes a variable of that name, and comes from the fallback
\* pass otherwise.
C6_LeftOutBeforeEntry ==
    Finished =>
        \A k \in DOMAIN entered_log :
            /\ ScansFromEntry(entered_log[k])
            /\ \A b \in LeftOut(entered_log[k]) :
                  /\ b \notin ScannedBlocks
                  /\ (Declared(doc, b.variableId)
                        /\ NameOf(doc, b.variableId) \notin ScannedNames) =>
                      /\ NameOf(doc, b.variableId) \notin Range(traversed)
                      /\ NameOf(doc, b.variableId) \in Range(FallbackPart)

\* a group entered in its middle, a later call naming one of its earlier
\* blocks, and the variable of that block left to the fallback pass
C6_Witness ==
    /\ Finished
    /\ \E k \in DOMAIN entered_log, h \in DOMAIN guard_hits :
          /\ guard_hits[h].group_id = entered_log[k].group_id
          /\ \E b \in LeftOut(entered_log[k]) :
                /\ b.id = guard_hits[h].start_block_id
                /\ Declared(doc, b.variableId)
                /\ NameOf(doc, b.variableId) \in Range(FallbackPart)

(***************************************************************************)
(* The order of the calls and of the names they collect.                   *)
(***************************************************************************)
Rank(via) == IF via = "item" THEN 1 ELSE IF via = "own" THEN 2 ELSE 3

OwnerGroup(bot, block_id) ==
    CHOOSE g \in DOMAIN bot.groups :
        \E k \in DOMAIN bot.groups[g].blocks : bot.groups[g].blocks[k].id = block_id

PlaceInGroup(bot, block_id) ==
    LET blocks == bot.groups[OwnerGroup(bot, block_id)].blocks
    IN  IndexOf([k \in DOMAIN blocks |-> blocks[k].id], block_id)

\* capture x was made at block b or in a call made for b, capture y at a
\* later block of b's group or in a call made for one
BeforeInGroup(x, y) ==
    \E d \in DOMAIN x.path, e \in DOMAIN y.path :
        /\ OwnerGroup(doc, x.path[d]) = OwnerGroup(doc, y.path[e])
        /\ PlaceInGroup(doc, x.path[d]) < PlaceInGroup(doc, y.path[e])

\* capture x was made at block b itself, capture y in a call made for b
OwnBeforeBranch(x, y) ==
    /\ Len(y.path) > Len(x.path)
    /\ SubSeq(y.path, 1, Len(x.path)) = x.path

\* C7: the calls made for one block are those for its items, then those for
\* its own edges, then the one of its Jump options; a block's own variable
\* comes before the names its calls collect, and these come before the names
\* collected at or through the later blocks of the group.
C7_CallOrder ==
    /\ \A p, q \in DOMAIN call_log :
          (p < q /\ call_log[p].block = call_log[q].block)
              => Rank(call_log[p].via) <= Rank(call_log[q].via)
    /\ \A p, q \in DOMAIN capture_log :
          (BeforeInGroup(capture_log[p], capture_log[q])
             \/ OwnBeforeBranch(capture_log[p], capture_log[q])) => p < q
    /\ (pc = "trace") => ordered_variables = [k \in DOMAIN capture_log |-> capture_log[k].name]
    /\ Finished => traversed = [k \in DOMAIN capture_log |-> capture_log[k].name]

\* one block made calls of two kinds, and a name collected in a call made for
\* a block came before the name of a later block of the group
C7_Witness ==
    /\ Finished
    /\ \E p, q \in DOMAIN call_log :
          call_log[p].block = call_log[q].block /\ call_log[p].via # call_log[q].via
    /\ \E p, q \in DOMAIN capture_log :
          /\ Len(capture_log[p].path) > Len(capture_log[q].path)
          /\ BeforeInGroup(capture_log[p], capture_log[q])

(***************************************************************************)
(* The fallback pass.                                                      *)
(***************************************************************************)
FirstDeclared(bot, name) ==
    IndexOf([k \in DOMAIN bot.variables |-> bot.variables[k].name], name)

\* C8: the result is the names the traversal collected followed by the
\* declared names it did not collect, each once, in the order of their
\* declarations.
C8_FallbackSuffix ==
    Finished =>
        /\ SubSeq(ordered_variables, 1, Len(traversed)) = traversed
        /\ Range(FallbackPart) = DeclaredNames(doc) \ Range(traversed)
        /\ \A p, q \in DOMAIN FallbackPart :
              p < q => FirstDeclared(doc, FallbackPart[p]) < FirstDeclared(doc, FallbackPart[q])

\* the traversal collected a name, and left two names that are declared in
\* another order than that of the variable ids
C8_Witness ==
    /\ Finished
    /\ traversed # <<>>
    /\ Len(FallbackPart) >= 2
    /\ \E p, q \in DOMAIN doc.variables :
          /\ p < q /\ doc.variables[p].id > doc.variables[q].id
          /\ {doc.variables[p].name, doc.variables[q].name} \subseteq Range(FallbackPart)

\* C9: a second call of get_ordered_variables on the same document returns
\* what the first call returned.
C9_SameResultTwice == (Finished /\ run = 2) => ordered_variables = first_result

\* the second call has returned a list that the traversal, not the
\* declaration order, decides
C9_Witness ==
    /\ Finished
    /\ run = 2
    /\ traversed # <<>>
    /\ ordered_variables # AppendMissing(<<>>, variables_values(doc))

(***************************************************************************)
(* The constraints and the items they come from.                           *)
(***************************************************************************)
Extracted == cons_pc = "done"

\* the items of the Condition blocks, in document order and, within a
\* block, in item order
ConditionItems(bot) ==
    LET blocks == AllBlocks(bot)
        itemsOf(b) == IF blocks[b].type = "Condition"
                      THEN [k \in DOMAIN blocks[b].items |->
                               [block |-> blocks[b].id, item |-> k]]
                      ELSE <<>>
    IN  Concat([b \in DOMAIN blocks |-> itemsOf(b)])

ItemAt(bot, at) == all_blocks_get(bot, at.block).items[at.item]

HasEdge(bot, item) == \E k \in DOMAIN bot.edges : bot.edges[k].id = item.outgoingEdgeId

EdgeOf(bot, item) == bot.edges[CHOOSE k \in DOMAIN bot.edges : bot.edges[k].id = item.outgoingEdgeId]

\* the blocks that an edge to target to, taken at block_id, passes over: the
\* rest of the group when the edge leaves the group, the blocks strictly
\* between the two when it stays
SkipWindow(bot, block_id, to) ==
    LET g == OwnerGroup(bot, block_id)
        blocks == bot.groups[g].blocks
        c == PlaceInGroup(bot, block_id)
    IN  IF to.groupId # None /\ to.groupId # bot.groups[g].id
        THEN {blocks[k] : k \in (c + 1)..Len(blocks)}
        ELSE {blocks[k] : k \in {j \in DOMAIN blocks :
                                    \E t \in DOMAIN blocks :
                                        blocks[t].id = to.blockId /\ c < j /\ j < t}}

\* an input block that writes a variable of the variable map
IsInputField(bot, block) ==
    IsInput(block.type) /\ block.variableId # None /\ Declared(bot, block.variableId)

\* the outgoing edge of the item skips at least one input field
SkipsField(bot, at) ==
    /\ HasEdge(bot, ItemAt(bot, at))
    /\ \E block \in SkipWindow(bot, at.block, EdgeOf(bot, ItemAt(bot, at)).to) :
            IsInputField(bot, block)

\* the item has a comparison, and the variable of its first comparison has a
\* name in the variable map
NamesColumn(bot, at) ==
    LET comparisons == ItemAt(bot, at).comparisons
    IN  /\ comparisons # <<>>
        /\ Declared(bot, comparisons[1].variableId)
        /\ NameOf(bot, comparisons[1].variableId) # ""

OnePerItem(selected) ==
    /\ emitted = selected
    /\ Len(constraints) = Len(emitted)
    /\ \A k \in DOMAIN constraints : constraints[k].affected_columns # <<>>

\* C10, as stated: generate_constraints returns exactly one constraint for
\* each item of a Condition block whose outgoing edge skips at least one
\* input field and none for any other item, every constraint with a
\* non-empty affected_columns, in document order of the blocks and item
\* order within a block.
C10_AsStated ==
    Extracted =>
        LET skips(at) == SkipsField(doc, at)
        IN  OnePerItem(SelectSeq(ConditionItems(doc), skips))

\* C10, amended: generate_constraints returns exactly one constraint for
\* each item of a Condition block that has a comparison whose first
\* comparison names a variable with a non-empty name in the variable map and
\* whose outgoing edge skips at least one input block writing a variable of
\* the variable map, and none for any other item; every constraint has a
\* non-empty affected_columns, and the constraints are in document order of
\* the condition blocks and, within a block, in item order.
C10_OnePerReadableItem ==
    Extracted =>
        LET counts(at) == NamesColumn(doc, at) /\ SkipsField(doc, at)
        IN  OnePerItem(SelectSeq(ConditionItems(doc), counts))

\* two condition blocks have given a constraint each, the first of them two,
\* and an item whose edge skips a field has given none
C10_Witness ==
    /\ Extracted
    /\ Len(emitted) >= 3
    /\ emitted[1].block = emitted[2].block
    /\ emitted[1].item < emitted[2].item
    /\ emitted[3].block # emitted[1].block
    /\ \E k \in DOMAIN ConditionItems(doc) :
            /\ SkipsField(doc, ConditionItems(doc)[k])
            /\ ConditionItems(doc)[k] \notin Range(emitted)

(***************************************************************************)
(* The skip windows.                                                       *)
(***************************************************************************)
\* the blocks of the group that owns block_id, and the place of block_id
OwnBlocks(bot, block_id) == bot.groups[OwnerGroup(bot, block_id)].blocks

OwnGroupId(bot, block_id) == bot.groups[OwnerGroup(bot, block_id)].id

LeavesGroup(w) == w.to.groupId # None /\ w.to.groupId # OwnGroupId(doc, w.at.block)

\* the ids of the n blocks that follow place c
IdsAfter(blocks, c, n) == [k \in 1..n |-> blocks[c + k].id]

\* C11: when the outgoing edge of a condition item targets a group other
\* than the group of the condition block, the skip window is every block
\* after the condition block up to the end of its own group, whatever block
\* the edge names.
C11_InterGroupWindow ==
    \A k \in DOMAIN windows :
        LET w == windows[k]
            blocks == OwnBlocks(doc, w.at.block)
            c == PlaceInGroup(doc, w.at.block)
        IN  LeavesGroup(w) => w.skipped = IdsAfter(blocks, c, Len(blocks) - c)

\* an edge to a block of another group, taken at a condition that is
\* followed by blocks of its own group
C11_Witness ==
    /\ Extracted
    /\ \E k \in DOMAIN windows :
            /\ LeavesGroup(windows[k])
            /\ windows[k].to.blockId # None
            /\ Len(windows[k].skipped) >= 2
            /\ windows[k].at \in Range(emitted)

\* place of the block with the id among blocks, 0 when there is none
PlaceOf(blocks, id) == IndexOf([k \in DOMAIN blocks |-> blocks[k].id], id)

\* C12: when the outgoing edge of a condition item targets a block of the
\* condition's own group, the skip window is exactly the blocks strictly
\* between the condition block and the target block (empty when the target
\* is the next block or lies before the condition); when the target block id
\* is not in the order of the owning group, the item yields no constraint.
C12_SameGroupWindow ==
    \A k \in DOMAIN windows :
        LET w == windows[k]
            blocks == OwnBlocks(doc, w.at.block)
            c == PlaceInGroup(doc, w.at.block)
            t == PlaceOf(blocks, w.to.blockId)
        IN  ~LeavesGroup(w) =>
                IF t # 0
                THEN w.skipped = IdsAfter(blocks, c, IF t > c THEN t - c - 1 ELSE 0)
                ELSE w.skipped = <<>> /\ w.at \notin Range(emitted)

\* an edge over two blocks of the group of the condition
C12_Witness ==
    /\ Extracted
    /\ \E k \in DOMAIN windows :
            /\ ~LeavesGroup(windows[k])
            /\ Len(windows[k].skipped) = 2
            /\ windows[k].at \in Range(emitted)

(***************************************************************************)
(* The columns of a constraint.                                            *)
(***************************************************************************)
\* the window that was computed for an item
WindowOf(at) == windows[CHOOSE k \in DOMAIN windows : windows[k].at = at]

\* the block types that count as input fields
InputTypes == {"text input", "choice input", "Number Input"}

\* the names that the blocks with these ids give: those of the variables of
\* the variable map written by input blocks
NamesWritten(bot, ids) ==
    LET written(id) ==
            LET block == all_blocks_get(bot, id)
            IN  IF block.type \in InputTypes /\ Declared(bot, block.variableId)
                THEN <<NameOf(bot, block.variableId)>>
                ELSE <<>>
    IN  Concat([k \in DOMAIN ids |-> written(ids[k])])

\* C13: the emitted constraint has for condition_column the name of the
\* variable of the condition, and affected_columns lists the variable names
\* of the skipped input blocks in the order of the skip window, resolved
\* through the variable map, variable ids absent from the map left out (a
\* condition on A that skips the inputs of B and C gives A and [B, C]).
C13_ColumnsInWindowOrder ==
    \A k \in DOMAIN emitted :
        /\ constraints[k].condition_column =
                NameOf(doc, ItemAt(doc, emitted[k]).comparisons[1].variableId)
        /\ constraints[k].affected_columns = NamesWritten(doc, WindowOf(emitted[k]).skipped)

\* the condition on A has skipped the input blocks of B and C
C13_Witness ==
    /\ Extracted
    /\ \E k \in DOMAIN constraints :
            /\ constraints[k].condition_column = "A"
            /\ constraints[k].affected_columns = <<"B", "C">>

\* the blocks of a window that are not input blocks but carry a variableId
Bystanders(bot, ids) ==
    {id \in Range(ids) : /\ all_blocks_get(bot, id).type \notin InputTypes
                         /\ all_blocks_get(bot, id).variableId # None}

\* the input blocks of a window that write a variable of the variable map
Contributors(bot, ids) ==
    {id \in Range(ids) : /\ all_blocks_get(bot, id).type \in InputTypes
                         /\ Declared(bot, all_blocks_get(bot, id).variableId)}

\* C14: in the skip window only the blocks whose type contains 'input', in
\* any letter case, contribute to affected_columns, through their
\* variableId; a block of another type never contributes a column, even one
\* that carries a variableId.
C14_OnlyInputBlocks ==
    \A k \in DOMAIN windows :
        LET w == windows[k]
            n == Cardinality(Contributors(doc, w.skipped))
        IN  IF n = 0 THEN w.at \notin Range(emitted)
            ELSE \E e \in DOMAIN emitted :
                    /\ emitted[e] = w.at
                    /\ Len(constraints[e].affected_columns) = n

\* a constraint came from a window that holds a block of another type
\* carrying a variableId
C14_Witness ==
    /\ Extracted
    /\ \E k \in DOMAIN windows :
            /\ Bystanders(doc, windows[k].skipped) # {}
            /\ windows[k].at \in Range(emitted)

(***************************************************************************)
(* What is read of an item.                                                *)
(***************************************************************************)
\* the document with the items of every block changed by change
WithItems(bot, change(_)) ==
    [bot EXCEPT !.groups =
        [g \in DOMAIN bot.groups |->
            [bot.groups[g] EXCEPT !.blocks =
                [b \in DOMAIN bot.groups[g].blocks |->
                    [bot.groups[g].blocks[b] EXCEPT !.items =
                        change(bot.groups[g].blocks[b].items)]]]]]

\* the items with the comparisons after the first removed
FirstComparisonOnly(items) ==
    [i \in DOMAIN items |->
        [items[i] EXCEPT !.comparisons = IF @ = <<>> THEN <<>> ELSE <<@[1]>>]]

\* C15: of each condition item only the first comparison is read: the
\* constraints are those of the document in which every item keeps its first
\* comparison only (later comparisons never change the output), and an item
\* without comparisons produces no constraint.
C15_FirstComparisonOnly ==
    Extracted =>
        /\ constraints = generate_constraints(WithItems(doc, FirstComparisonOnly), impl)
        /\ \A k \in DOMAIN emitted :
                LET comparisons == ItemAt(doc, emitted[k]).comparisons
                IN  /\ comparisons # <<>>
                    /\ constraints[k].condition_column =
                            NameOf(doc, comparisons[1].variableId)
                    /\ constraints[k].condition_value[Len(constraints[k].condition_value)] =
                            comparisons[1].value

\* a constraint came from an item with a second comparison, on another
\* variable and another value
C15_Witness ==
    /\ Extracted
    /\ \E k \in DOMAIN emitted :
            LET comparisons == ItemAt(doc, emitted[k]).comparisons
            IN  /\ Len(comparisons) >= 2
                /\ comparisons[2].variableId # comparisons[1].variableId
                /\ comparisons[2].value # comparisons[1].value

(***************************************************************************)
(* Items without an edge.                                                  *)
(***************************************************************************)
\* the items that have an outgoing edge
WithEdge(items) ==
    LET has(item) == HasEdge(doc, item)
    IN  SelectSeq(items, has)

\* item k of the block is followed, in the block, by an item that gave a
\* constraint
FollowedByConstraint(at) ==
    \E e \in DOMAIN emitted : emitted[e].block = at.block /\ emitted[e].item > at.item

\* C16: a condition item whose outgoing edge is absent (no outgoingEdgeId,
\* or one that is the id of no edge) produces no constraint, and the
\* extraction continues with the next item: the constraints are those of
\* the document without these items.
C16_NoEdgeNoConstraint ==
    /\ \A k \in DOMAIN windows : HasEdge(doc, ItemAt(doc, windows[k].at))
    /\ \A k \in DOMAIN emitted : HasEdge(doc, ItemAt(doc, emitted[k]))
    /\ Extracted => constraints = generate_constraints(WithItems(doc, WithEdge), impl)

\* an item without outgoingEdgeId and an item with the id of no edge, both
\* with a comparison on a declared variable, are followed by an item that
\* gave a constraint
C16_Witness ==
    /\ Extracted
    /\ \E k, l \in DOMAIN ConditionItems(doc) :
            LET x == ConditionItems(doc)[k]
                y == ConditionItems(doc)[l]
            IN  /\ NamesColumn(doc, x) /\ NamesColumn(doc, y)
                /\ ItemAt(doc, x).outgoingEdgeId = None
                /\ ItemAt(doc, y).outgoingEdgeId # None
                /\ ~HasEdge(doc, ItemAt(doc, y))
                /\ FollowedByConstraint(x) /\ FollowedByConstraint(y)

(***************************************************************************)
(* Faulty items, dangling edges, the rendering of the condition.           *)
(***************************************************************************)
\* the item lacks what the body of the loop reads: a content dict, a
\* comparison, a named variable in the first comparison, an outgoing edge
Faulty(item) ==
    \/ item.content # "dict"
    \/ item.comparisons = <<>>
    \/ ~Declared(doc, item.comparisons[1].variableId)
    \/ NameOf(doc, item.comparisons[1].variableId) = ""
    \/ ~HasEdge(doc, item)

Sound(items) ==
    LET sound(item) == ~Faulty(item)
    IN  SelectSeq(items, sound)

\* C17: a malformed or missing field in the processing of one condition
\* item only makes that item be ignored: generate_constraints never aborts,
\* and the constraints it returns are those of the document without the
\* faulty items.
C17_FaultyItemIgnored ==
    /\ cons_pc # "error"
    /\ Extracted => constraints = generate_constraints(WithItems(doc, Sound), impl)

GroupExists(bot, id) == \E g \in DOMAIN bot.groups : bot.groups[g].id = id

BlockExists(bot, id) == \E b \in DOMAIN AllBlocks(bot) : AllBlocks(bot)[b].id = id

\* the edge names a group or a block that the document does not have
Dangling(bot, to) ==
    \/ to.groupId # None /\ ~GroupExists(bot, to.groupId)
    \/ to.blockId # None /\ ~BlockExists(bot, to.blockId)

\* C18: an edge to an endpoint that does not exist is inert: the constraint
\* extractor emits no skip rule because of it.
C18_DanglingEdgeInert ==
    \A k \in DOMAIN emitted : ~Dangling(doc, EdgeOf(doc, ItemAt(doc, emitted[k])).to)

\* the operator keywords in natural language, equality as the bare operand
Rendering(operator, value) ==
    CASE operator = "Equal to" -> <<value>>
      [] operator = "Contains" -> <<"contém", value>>
      [] operator = "Does not contain" -> <<"não contém", value>>
      [] operator = "Not equal" -> <<"diferente de", value>>
      [] OTHER -> <<operator, value>>

\* C19: condition_value is the rendering of the operator and the operand of
\* the first comparison, with the keywords for equality, contains, does not
\* contain and not equal translated and every other operator followed by
\* the operand, in both implementations.
C19_OperatorRendering ==
    \A k \in DOMAIN emitted :
        LET comparison == ItemAt(doc, emitted[k]).comparisons[1]
        IN  constraints[k].condition_value =
                Rendering(comparison.comparisonOperator, comparison.value)

(***************************************************************************)
(* The questions.                                                          *)
(***************************************************************************)
Associated == ques_pc = "done"

\* the block that follows the block with the id in its group
NextInGroup(bot, id) == OwnBlocks(bot, id)[PlaceInGroup(bot, id) + 1]

HasNextInGroup(bot, id) == PlaceInGroup(bot, id) < Len(OwnBlocks(bot, id))

\* C20: a pending prompt text is used at most once: the input block that
\* consumes it clears the slot, so no text is recorded for two input blocks,
\* and of two input blocks that immediately follow a text block only the
\* first one gets an entry.
C20_TextUsedOnce ==
    /\ \A k, l \in DOMAIN recorded :
            k # l => /\ recorded[k].source # recorded[l].source
                     /\ recorded[k].input # recorded[l].input
    /\ \A k \in DOMAIN recorded :
            /\ recorded[k].source # None
            /\ HasNextInGroup(doc, recorded[k].input) =>
                  \A l \in DOMAIN recorded :
                      recorded[l].input # NextInGroup(doc, recorded[k].input).id
    /\ (ques_pc = "blocks" /\ recorded # <<>> /\ block_index > 1
          /\ recorded[Len(recorded)].input =
                doc.groups[group_cursor].blocks[block_index - 1].id)
            => last_text_content = <<>>

\* a text block is followed by two input blocks of declared variables, and
\* the scan is over with an entry for the first one alone
C20_Witness ==
    /\ Associated
    /\ \E k \in DOMAIN recorded :
            LET first == recorded[k].input
            IN  /\ PlaceInGroup(doc, first) >= 2
                /\ OwnBlocks(doc, first)[PlaceInGroup(doc, first) - 1].id = recorded[k].source
                /\ HasNextInGroup(doc, first)
                /\ NextInGroup(doc, first).type = "text input"
                /\ Declared(doc, NextInGroup(doc, first).variableId)
                /\ NameOf(doc, NextInGroup(doc, first).variableId) # ""
                /\ \A l \in DOMAIN questions_map :
                       questions_map[l].name # NameOf(doc, NextInGroup(doc, first).variableId)

(***************************************************************************)
(* The pending text.                                                       *)
(***************************************************************************)
\* the block the scan has just passed
PassedBlock == doc.groups[group_cursor].blocks[block_index - 1]

JustPassed == ques_pc = "blocks" /\ block_index > 1

\* the text of a text block: its lines that are not blank, joined
ContentOf(block) == JoinLines(ExtractedLines(block.text))

\* the places before place p of the text blocks
TextsBefore(blocks, p) == {t \in 1..(p - 1) : blocks[t].type = "text"}

\* the places before place p of the text blocks that have a line
WrittenTextsBefore(blocks, p) ==
    {t \in TextsBefore(blocks, p) : ExtractedLines(blocks[t].text) # <<>>}

\* the last of the places, as a list of none or one block
LastOf(blocks, places) ==
    IF places = {} THEN <<>>
    ELSE <<blocks[CHOOSE t \in places : \A u \in places : u <= t]>>

\* the text block was the source of an entry
Used(id) == \E k \in DOMAIN recorded : recorded[k].source = id

\* the pending text is the content of the last text block with a line before
\* the scan, unless an input block has used it
PendingIsLastWritten ==
    LET last == LastOf(doc.groups[group_cursor].blocks,
                       WrittenTextsBefore(doc.groups[group_cursor].blocks, block_index))
    IN  IF last = <<>> \/ Used(last[1].id)
        THEN last_text_content = <<>> /\ pending_source = None
        ELSE last_text_content = ContentOf(last[1]) /\ pending_source = last[1].id

\* C21 as stated: on every plain-text block the pending text becomes the join
\* of the non-empty text of that block, overwriting what was pending: after a
\* text block none of the text of an earlier text block is still pending.
C21_AsStated ==
    (JustPassed /\ PassedBlock.type = "text") =>
        /\ last_text_content = ContentOf(PassedBlock)
        /\ pending_source \in {None, PassedBlock.id}

\* C21: a text block with a line that is not blank overwrites the pending
\* text with the join of its lines; a text block without such a line leaves
\* the pending text as it was, the text of an earlier block included.
C21_WrittenTextOverwrites ==
    (JustPassed /\ PassedBlock.type = "text") =>
        /\ PendingIsLastWritten
        /\ ExtractedLines(PassedBlock.text) # <<>> =>
                /\ last_text_content = ContentOf(PassedBlock)
                /\ pending_source = PassedBlock.id

\* a blank text block was passed and the text of an earlier block is pending
C21_Witness ==
    /\ JustPassed
    /\ PassedBlock.type = "text"
    /\ ExtractedLines(PassedBlock.text) = <<>>
    /\ pending_source # None
    /\ pending_source # PassedBlock.id
    /\ last_text_content # <<>>

\* the nearest text block, of the given places, before the block with the id
NearestText(bot, id, places(_, _)) ==
    LastOf(OwnBlocks(bot, id), places(OwnBlocks(bot, id), PlaceInGroup(bot, id)))

\* the entry is the content of the text block, for the variable of its input
EntryOf(entry, nearest) ==
    /\ nearest # <<>>
    /\ entry.source = nearest[1].id
    /\ entry.text = ContentOf(nearest[1])
    /\ all_blocks_get(doc, entry.input).variableId # None
    /\ entry.name = NameOf(doc, all_blocks_get(doc, entry.input).variableId)

\* every entry of the result was recorded at an input block
EntriesRecorded ==
    \A e \in DOMAIN questions_map :
        \E k \in DOMAIN recorded :
            /\ recorded[k].name = questions_map[e].name
            /\ recorded[k].text = questions_map[e].text

\* C22 as stated: every entry of the result is the content of the nearest
\* text block that precedes, in block order and in the same group, an input
\* block bound to the variable.
C22_AsStated ==
    /\ \A k \in DOMAIN recorded :
            EntryOf(recorded[k], NearestText(doc, recorded[k].input, TextsBefore))
    /\ EntriesRecorded

\* C22: every entry of the result is the content of the nearest text block
\* with a line that is not blank that precedes, in block order and in the
\* same group, an input block bound to the variable; no text is associated
\* with an input block of another group.
C22_NearestWrittenText ==
    /\ \A k \in DOMAIN recorded :
            /\ EntryOf(recorded[k], NearestText(doc, recorded[k].input, WrittenTextsBefore))
            /\ OwnerGroup(doc, recorded[k].source) = OwnerGroup(doc, recorded[k].input)
    /\ EntriesRecorded
    /\ ques_pc = "blocks" /\ block_index = 1 => last_text_content = <<>>

\* the scan has returned an entry whose text is not of the nearest text block,
\* which is blank, but of the one before it
C22_Witness ==
    /\ ques_pc = "done"
    /\ \E k \in DOMAIN recorded :
            LET nearest == NearestText(doc, recorded[k].input, TextsBefore)
            IN  nearest # <<>> /\ nearest[1].id # recorded[k].source

(***************************************************************************)
(* The kinds of the columns.                                               *)
(***************************************************************************)
\* the blocks of a recognized input type that write a variable of the name
RecognizedWriters(bot, name) ==
    {b \in Range(AllBlocks(bot)) :
        /\ b.type \in SdtypeTypes
        /\ b.variableId # None
        /\ \E v \in Range(bot.variables) : v.id = b.variableId
        /\ variables_get(bot, b.variableId) = name}

ColumnNames == {columns_metadata[k].name : k \in DOMAIN columns_metadata}

\* C23: generate_metadata called with the ordered variables returns columns
\* whose keys are exactly the ordered variables; each variable has the kind
\* translated from the type of an input block that writes it, and a variable
\* written by no block of a recognized type has the kind 'text'.
C23_ColumnsOfOrderedVariables ==
    meta_pc = "done" =>
        /\ ColumnNames = Range(ordered_vars)
        /\ Len(columns_metadata) = Cardinality(ColumnNames)
        /\ \A k \in DOMAIN columns_metadata :
            LET writers == RecognizedWriters(doc, columns_metadata[k].name)
            IN  IF writers = {} THEN columns_metadata[k].sdtype = "text"
                ELSE \E b \in writers : columns_metadata[k].sdtype = sdtype_map(b.type)

\* the columns are returned: one has the kind of the second block that writes
\* it, the first being of no recognized type, and one has the default kind
C23_Witness ==
    /\ meta_pc = "done"
    /\ Len(columns_metadata) = 2
    /\ \E k \in DOMAIN columns_metadata :
        /\ columns_metadata[k].sdtype = "categorical"
        /\ AllBlocks(doc)[1].type = "Set variable"
        /\ WritesName(doc, AllBlocks(doc)[1], columns_metadata[k].name)
    /\ \E k \in DOMAIN columns_metadata :
        /\ columns_metadata[k].sdtype = "text"
        /\ RecognizedWriters(doc, columns_metadata[k].name) = {}

(***************************************************************************)
(* The functions side by side.                                             *)
(***************************************************************************)
\* each function that has returned has returned what it returns when it runs
\* alone: the constraints and the questions are those of the document, and
\* the second call of the tracer gives the list of the first
ResultsOfTheDocument ==
    /\ cons_pc = "done" => constraints = generate_constraints(doc, impl)
    /\ ques_pc = "done" => questions_map = extract_questions(doc, impl).questions
    /\ (pc = "done" /\ run = 2) => ordered_variables = first_result
    /\ cons_pc # "error" /\ ques_pc # "error" /\ pc # "error"

DistinctGroups == Cardinality({doc.groups[g].id : g \in DOMAIN doc.groups})

\* the calls that have not returned and are past the guard
EnteredCalls == {k \in DOMAIN stack : stack[k].entered}

\* C25 as stated: at every moment the number of trace_flow calls that have
\* not returned is at most the number of distinct groups of the document.
C25_AsStated == Len(stack) <= DistinctGroups

\* C25: at every moment the trace_flow calls that have not returned and are
\* past the visited guard are for distinct groups of the document, so they
\* are at most as many as the groups; only the innermost call can be one
\* that has yet to return at the guard or for a group id that does not
\* exist, so the nested calls are at most one more than the groups.
C25_DepthWithinGroupsPlusOne ==
    /\ Cardinality(EnteredCalls) <= DistinctGroups
    /\ \A j, k \in EnteredCalls : j # k => stack[j].group_id # stack[k].group_id
    /\ \A k \in EnteredCalls : groups_has(doc, stack[k].group_id)
    /\ \A k \in DOMAIN stack : k < Len(stack) => stack[k].entered
    /\ Len(stack) <= DistinctGroups + 1

\* every group has a call that has not returned, and one more call was made:
\* for a group whose loop is running, or for a group id that does not exist
C25_Witness ==
    /\ Cardinality(EnteredCalls) = DistinctGroups
    /\ Len(stack) = DistinctGroups + 1
    /\ DistinctGroups > 1
    /\ ~Top.entered

(***************************************************************************)
(* The rows and the pages.                                                 *)
(***************************************************************************)
\* the results the loop over a batch has gone through, in that order
Processed == Concat([k \in DOMAIN page_log |-> page_log[k].batch])

\* the requests made for the filter set
RequestsOf(set) == {k \in DOMAIN page_log : page_log[k].set = set}

\* the first place of the result id in the list of results
FirstOf(results, id) ==
    CHOOSE k \in DOMAIN results :
        /\ results[k].id = id
        /\ \A j \in 1..(k - 1) : results[j].id # id

\* C26: fetch_all_results holds at most one row per result id: whatever pages
\* the server returns, over all pages and both filter sets, a result id that
\* was extracted is never added or overwritten again, so the row of an id is
\* the row of its first occurrence.
C26_OneRowPerResult ==
    /\ \A i, j \in DOMAIN all_extracted_map :
            i # j => all_extracted_map[i].ResultId # all_extracted_map[j].ResultId
    /\ {all_extracted_map[i].ResultId : i \in DOMAIN all_extracted_map}
            = {Processed[k].id : k \in DOMAIN Processed}
    /\ \A i \in DOMAIN all_extracted_map :
            all_extracted_map[i]
                = Row(Processed[FirstOf(Processed, all_extracted_map[i].ResultId)])

\* the rows are returned; a result id came on two pages of the first filter
\* set and again in the second, each time with other content
C26_Witness ==
    /\ fetch_pc = "done"
    /\ \E i, j, k \in DOMAIN page_log :
        /\ i < j /\ j < k
        /\ page_log[i].set = 1 /\ page_log[j].set = 1 /\ page_log[k].set = 2
        /\ \E a \in DOMAIN page_log[i].batch, b \in DOMAIN page_log[j].batch,
              c \in DOMAIN page_log[k].batch :
            /\ page_log[i].batch[a].id = page_log[j].batch[b].id
            /\ page_log[i].batch[a].id = page_log[k].batch[c].id
            /\ page_log[i].batch[a].content # page_log[j].batch[b].content
            /\ page_log[i].batch[a].content # page_log[k].batch[c].content

\* the results the loop has gone through for the filter set
ProcessedOf(set) ==
    Concat([k \in DOMAIN page_log |->
                IF page_log[k].set = set THEN page_log[k].batch ELSE <<>>])

\* no request for the filter set has failed
Unfailing(set) == \A k \in RequestsOf(set) : page_log[k].status = "ok"

\* the pagination of the filter set is over
SetDone(set) == fetch_pc = "done" \/ (fetch_pc \in {"sets", "pages"} /\ filter_set > set)

IsPrefix(front, list) ==
    /\ Len(front) <= Len(list)
    /\ \A k \in DOMAIN front : front[k] = list[k]

\* C27: against a server that follows the N+1 convention, fetch_all_results
\* extracts every record of the server exactly once: of a page of limit+1
\* records it processes the first limit, it moves the cursor on by limit,
\* and it processes the whole of the last page.
C27_EveryRecordOnce ==
    \A set \in DOMAIN filter_sets :
        (server.mode = "n+1" /\ fetch_pc # "init" /\ Unfailing(set)) =>
            /\ IsPrefix(ProcessedOf(set), server.records[set])
            /\ SetDone(set) => ProcessedOf(set) = server.records[set]
            /\ \A k \in RequestsOf(set) :
                /\ page_log[k].cursor
                        = limit * Cardinality({j \in RequestsOf(set) : j < k})
                /\ Len(page_log[k].batch)
                        = IF Len(page_log[k].results) > limit THEN limit
                          ELSE Len(page_log[k].results)
            /\ (SetDone(set) /\ RequestsOf(set) # {}) =>
                    /\ \A i \in DOMAIN server.records[set] :
                        \E r \in DOMAIN all_extracted_map :
                            all_extracted_map[r].ResultId = server.records[set][i].id

\* the function has returned; the first filter set took three pages, two of
\* limit+1 records; the second held exactly limit+1 records
C27_Witness ==
    /\ fetch_pc = "done"
    /\ server.mode = "n+1"
    /\ Unfailing(1) /\ Unfailing(2)
    /\ Cardinality(RequestsOf(1)) = 3
    /\ Len(server.records[1]) = 2 * limit + 1
    /\ Len(server.records[2]) = limit + 1
    /\ Len(all_extracted_map) = Len(server.records[1]) + Len(server.records[2])

\* a page that does not let the loop go on: it failed, or is empty, or has at
\* most limit records
EndsLoop(entry) == entry.status = "error" \/ Len(entry.results) <= limit

\* the requests a list server gets for the filter set, at most
RequestsNeeded(set) == (Len(server.records[set]) \div limit) + 1

\* C28: the pagination loop for one filter set ends at the first page that
\* is empty, has at most limit records, or fails, and a further page is
\* requested only after a page of more than limit records; against a server
\* that holds finitely many records the cursor stays within the records and
\* the requests are as many as the pages of the records, at most.
C28_PaginationStops ==
    /\ \A k \in DOMAIN page_log :
        /\ (k > 1 /\ page_log[k - 1].set = page_log[k].set) => ~EndsLoop(page_log[k - 1])
        /\ (k > 1 /\ page_log[k - 1].set # page_log[k].set) =>
                page_log[k - 1].set < page_log[k].set /\ page_log[k].cursor = 0
        /\ (k = Len(page_log) /\ EndsLoop(page_log[k])) =>
                ~(fetch_pc = "pages" /\ has_more /\ filter_set = page_log[k].set)
    /\ server.mode = "n+1" =>
        /\ \A set \in DOMAIN filter_sets : Cardinality(RequestsOf(set)) <= RequestsNeeded(set)
        /\ (fetch_pc = "pages" /\ has_more) =>
            /\ offset = limit * Cardinality(RequestsOf(filter_set))
            /\ offset = 0 \/ offset < Len(server.records[filter_set])

\* the function has returned after as many requests as the records need: one
\* filter set ended on an empty page, the other after three pages
C28_Witness ==
    /\ fetch_pc = "done"
    /\ server.mode = "n+1"
    /\ \E set \in DOMAIN filter_sets :
        /\ server.records[set] = <<>>
        /\ Cardinality(RequestsOf(set)) = 1
    /\ \E set \in DOMAIN filter_sets :
        /\ Cardinality(RequestsOf(set)) = 3
        /\ Unfailing(set)

\* C29: when a page request fails, only the pagination of the current filter
\* set is given up: no further page of that set is requested, the rows
\* extracted before the failure are kept and returned, and the next filter
\* set is still queried, from cursor 0.
C29_FailureEndsOneSet ==
    \A k \in DOMAIN page_log :
        page_log[k].status = "error" =>
            /\ k < Len(page_log) =>
                    /\ page_log[k + 1].set = page_log[k].set + 1
                    /\ page_log[k + 1].cursor = 0
            /\ \A j \in 1..(k - 1) :
                    \A i \in DOMAIN page_log[j].batch :
                        \E r \in DOMAIN all_extracted_map :
                            all_extracted_map[r].ResultId = page_log[j].batch[i].id
            /\ (k = Len(page_log) /\ page_log[k].set < Len(filter_sets)) =>
                    /\ fetch_pc \in {"sets", "pages"}
                    /\ filter_set = page_log[k].set + 1
                    /\ fetch_pc = "pages" => offset = 0 /\ has_more

\* the function has returned rows of both filter sets; the second page of
\* the first filter set had failed, after rows of its first page
C29_Witness ==
    /\ fetch_pc = "done"
    /\ Len(page_log) >= 3
    /\ page_log[1].set = 1 /\ page_log[1].batch # <<>>
    /\ page_log[2].set = 1 /\ page_log[2].status = "error"
    /\ page_log[3].set = 2 /\ page_log[3].batch # <<>>
    /\ \E r \in DOMAIN all_extracted_map :
            all_extracted_map[r].ResultId = page_log[1].batch[1].id
    /\ \E r \in DOMAIN all_extracted_map :
            /\ all_extracted_map[r].ResultId = page_log[3].batch[1].id
            /\ all_extracted_map[r].ResultId # page_log[1].batch[1].id

(***************************************************************************)
(* The two copies of the tracer.                                           *)
(***************************************************************************)
\* both copies have returned, the one that ran first being of the given file
BothReturned(first) == pc = "done" /\ run = 2 /\ impl = 3 - first

\* C30: for every document, get_ordered_variables of 1-BotLogicExtractor.py
\* and get_ordered_variables of 2-ExtractBotData.py return the same list of
\* variable names.
C30_CopiesAgree ==
    \A first \in {1, 2} : BothReturned(first) => first_result = ordered_variables

====
